---------------------------- MODULE Spec2Model ----------------------------
(***************************************************************************)
(* The resumable batch driver of predict.py together with the agent graph  *)
(* it invokes for every question (router, math / rag / reading / toxic     *)
(* solvers) and the VNPT client's treatment of rate-limit (429/401) and    *)
(* transport failures.                                                     *)
(*                                                                         *)
(* A question is represented by its qid.  The checkpoint log is the        *)
(* sequence of records of inference_log.jsonl, the output is the           *)
(* submission CSV, the stop signal is the STOP_AUTO file.                  *)
(***************************************************************************)
EXTENDS Naturals, Sequences, FiniteSets, TLC

\* ------------------------------------------------------------------ bounds
\* number of distinct qids an input may use
NumQ == 2
\* longest input (number of questions in the input file)
MaxItems == 2

\* --------------------------------------------------------- program constants
\* max_retries of the math self-correction loop
max_retries == 2

QIds == 1..NumQ

\* the input files: every sequence of at most MaxItems qids (qids may repeat)
Inputs == UNION {[1..n -> QIds] : n \in 0..MaxItems}

\* the letter extracted from a response that holds one: "D" stands for every
\* letter, it is the default of no strategy and not the fallback answer
RespLetters == {"D"}
\* "none": the response holds no extractable letter
RespOrNone == RespLetters \cup {"none"}

\* answer of the driver's fallback record
FALLBACK_ANSWER == "C"
\* category of the driver's fallback record
FALLBACK_CATEGORY == "error"
\* default letters of the strategies when no letter is extracted
MATH_DEFAULT == "B"
RAG_DEFAULT == "A"
READING_DEFAULT == "A"
TOXIC_DEFAULT == "A"
\* the letter rag_solver_node stores when its generation call raised
RAG_ERROR_ANSWER == "A"

\* the categories the graph has an edge for
Categories == {"math", "rag", "reading", "toxic"}
\* "other" stands for every classifier type outside the four categories
RouterTypes == Categories \cup {"other"}

\* what the service does with one HTTP call: a parsable body, a 429/401
\* response, or any other failure (other status, timeout, malformed body)
CallOutcomes == {"ok", "rl", "fail"}

\* what one execution of a generated snippet does: it prints a result, it
\* fails (an exception or an error indicator in the output), or it makes the
\* interpreter exit
ExecResults == {"success", "failure", "exit"}

VARIABLES
    items,      \* transformed_data: the qids of the input, in input order
    log,        \* inference_log.jsonl: sequence of records
    out,        \* submission CSV: [exists, rows]
    stop,       \* the STOP_AUTO file exists
    pc,         \* position of the driver: idle, loop, invoke, wait, consolidate
    auto,       \* args.auto of the current run
    processed,  \* processed_qids of the current run
    remaining,  \* remaining_data of the current run
    idx,        \* idx of the current run (0-based)
    logStart,   \* length of the log when the current run started
    last,       \* the latest processing attempt of the loop, until the loop
                \* goes on or is left: how it ended, and whether a call in it
                \* was answered 429/401 (rl) or failed otherwise (fail)
    exit,       \* how the loop of the current run was left
    \* one app.invoke followed node by node (specification SpecGraph)
    response,   \* the classifier's response to the item
    choices,    \* state["choices"] of the item
    node,       \* position in the graph: __start__, router, a strategy
                \* node, END, or raised when the invocation ended by raising
    state,      \* the AgentState, with the way the invocation ends
    ran,        \* the nodes that ran for the item, in order
    math,       \* the locals of math_solver_node
    python_executor, \* the module-level SafePythonExecutor
    defined,    \* the names defined by the snippets executed so far
    \* the functions behind the strategies and the data pipeline, each
    \* followed on its own (specifications SpecRag, SpecEmbed, SpecClient)
    rag,        \* the locals of rag_solver_node and of the functions it calls
    emb,        \* the embedding run: its files, the store and its position
    http        \* one call of a method of VNPTClient

\* the state of the driver
driverVars == <<items, log, out, stop, pc, auto, processed, remaining, idx,
                logStart, last, exit>>

\* the state of one invocation of the graph
graphVars == <<response, choices, node, state, ran, math, python_executor,
               defined>>

\* the state of the functions followed on their own
pipeVars == <<rag, emb, http>>

vars == <<items, log, out, stop, pc, auto, processed, remaining, idx,
          logStart, last, exit, response, choices, node, state, ran, math,
          python_executor, defined, rag, emb, http>>

\* the locals of main that the loop does not change
runVars == <<auto, processed, remaining, logStart>>

\* ------------------------------------------------------------------ client

\* a client whose generation methods let every failure reach the caller
\* instead of returning ""
client_call_Raising(o) ==
    CASE o = "ok" -> "text"
      [] o = "rl" -> "RateLimitException"
      [] o = "fail" -> "Exception"

\* a generation method of VNPTClient: the text of the body, RateLimitException
\* re-raised for 429/401, and "" returned for every other failure
client_call(o) ==
    CASE o = "ok" -> "text"
      [] o = "rl" -> "RateLimitException"
      [] o = "fail" -> "empty"

\* VNPTClient.get_embedding: the vector of the body, RateLimitException
\* re-raised for 429/401, and a zero vector returned for every other failure
get_embedding(o) ==
    CASE o = "ok" -> "vector"
      [] o = "rl" -> "RateLimitException"
      [] o = "fail" -> "zeros"

\* ------------------------------------------------------------- agent graph
\* The state carried through app.invoke, with the way the call ends (kind:
\* "ok" while no exception is in flight), the number of snippet executions and
\* the signals the service gave during the call.  The question of an item is
\* named by the item (its text is behind the response of the classifier), the
\* choices of the item followed node by node are in the variable choices, and
\* 0 names no item.

initial_state(qid, question) ==
    [qid |-> qid, question |-> question, kind |-> "ok", category |-> "",
     answer |-> "", execs |-> 0, rl |-> FALSE, fail |-> FALSE]

\* the item at idx
CurQid == remaining[idx + 1]

\* the service answered a call with outcome o
Called(s, o) == [s EXCEPT !.rl = @ \/ o = "rl", !.fail = @ \/ o = "fail"]

\* an exception leaves the node: "ratelimit" for RateLimitException, "error"
\* for any other Exception, "exit" for SystemExit
Raise(s, k) == [s EXCEPT !.kind = k]

\* an exception of a client call made outside any try block leaves the node
Propagate(s, res) ==
    IF res = "RateLimitException" THEN Raise(s, "ratelimit") ELSE Raise(s, "error")

\* a strategy that stores what the extraction gave, found or not
Extract_NoDefault(resp, default) == resp

\* the letter a strategy stores: the extracted one or its default
Extract(resp, default) == IF resp = "none" THEN default ELSE resp

\* router_node: o is what the service does with classify_router, t the type the
\* response is read as, d its toxic_detected letter.  An empty response fails
\* to parse and the keyword scan ends in RAG.
router_node(s, o, t, d) ==
    LET res == client_call(o)
        s1 == Called(s, o)
        q_type == IF res = "text" THEN t ELSE "rag"
    IN  IF res \notin {"text", "empty"}
        THEN Propagate(s1, res)
        ELSE [s1 EXCEPT !.category = q_type,
                        !.answer = IF q_type = "toxic" /\ d # "none"
                                   THEN d ELSE @]

\* math_solver_node, the self-correction loop from attempt on: ex[a] is what
\* execution a does, rp[a] what the service does with the repair request
\* that follows a failed execution a
RECURSIVE exec_loop(_, _, _, _)
exec_loop(s, ex, rp, attempt) ==
    LET s1 == [s EXCEPT !.execs = attempt + 1]
    IN  CASE ex[attempt] = "exit" -> Raise(s1, "exit")
          [] ex[attempt] = "success" -> s1
          [] ex[attempt] = "failure" ->
                IF attempt < max_retries
                THEN exec_loop(Called(s1, rp[attempt]), ex, rp, attempt + 1)
                ELSE s1

\* math_solver_node: g is what the service does with generate_math_code, sel
\* with select_math_answer, l the letter at the start of its response.  An
\* empty code_response is executed as empty code, which prints nothing and
\* counts as a success ("No output").
math_solver_node(s, g, ex, rp, sel, l) ==
    LET gen == client_call(g)
        s1 == Called(s, g)
        s2 == exec_loop(s1, IF gen = "empty" THEN [ex EXCEPT ![0] = "success"]
                            ELSE ex, rp, 0)
        res == client_call(sel)
        s3 == Called(s2, sel)
    IN  IF gen \notin {"text", "empty"} THEN Propagate(s1, gen)
        ELSE IF s2.kind # "ok" THEN s2
        ELSE IF res \notin {"text", "empty"} THEN Propagate(s3, res)
        ELSE [s3 EXCEPT !.answer = IF res = "text"
                                   THEN Extract(l, MATH_DEFAULT)
                                   ELSE MATH_DEFAULT]

\* search_multi_query: without a qdrant client (q false) no call is made;
\* otherwise get_embedding is called and every exception of the query,
\* RateLimitException included, is caught and the query skipped
search_multi_query(s, q, e) == IF q THEN Called(s, e) ELSE s

\* rag_solver_node: retrieval, then generate_rag_answer inside try/except
\* Exception, which turns every exception into RAG_ERROR_ANSWER
rag_solver_node(s, q, e, g, l) ==
    LET s1 == search_multi_query(s, q, e)
        res == client_call(g)
        s2 == Called(s1, g)
    IN  [s2 EXCEPT !.answer = CASE res = "text" -> Extract(l, RAG_DEFAULT)
                                [] res = "empty" -> RAG_DEFAULT
                                [] OTHER -> RAG_ERROR_ANSWER]

\* reading_solver_node: g is what the service does with
\* generate_reading_answer, l the letter at the start of its response
reading_solver_node(s, g, l) ==
    LET res == client_call(g)
        s1 == Called(s, g)
    IN  IF res \notin {"text", "empty"} THEN Propagate(s1, res)
        ELSE [s1 EXCEPT !.answer = IF res = "text"
                                   THEN Extract(l, READING_DEFAULT)
                                   ELSE READING_DEFAULT]

\* a toxic strategy that files the item it answered under another category
toxic_checker_node_Recategorised(s, l) ==
    [s EXCEPT !.answer = Extract(l, TOXIC_DEFAULT), !.category = "rag"]

\* toxic_checker_node: no external call; l is the letter of the choice found
\* by the scans ("none": no choice matches), which replaces any answer the
\* router had set
toxic_checker_node(s, l) == [s EXCEPT !.answer = Extract(l, TOXIC_DEFAULT)]

\* the inputs of the self-correction loop
ExecTraces == [0..max_retries -> ExecResults]
RepairTraces == [0..(max_retries - 1) -> CallOutcomes]

\* build_graph: the conditional edge after the router and the solver behind
\* it; a category without an edge raises.  The set holds every way the
\* solver can end for the router's state r.
dispatch(r) ==
    CASE r.kind # "ok" -> {r}
      [] r.kind = "ok" /\ r.category = "math" ->
            {math_solver_node(r, g, ex, rp, sel, l) :
                g \in CallOutcomes, ex \in ExecTraces, rp \in RepairTraces,
                sel \in CallOutcomes, l \in RespOrNone}
      [] r.kind = "ok" /\ r.category = "rag" ->
            {rag_solver_node(r, q, e, g, l) :
                q \in BOOLEAN, e \in CallOutcomes, g \in CallOutcomes,
                l \in RespOrNone}
      [] r.kind = "ok" /\ r.category = "reading" ->
            {reading_solver_node(r, g, l) : g \in CallOutcomes, l \in RespOrNone}
      [] r.kind = "ok" /\ r.category = "toxic" ->
            {toxic_checker_node(r, l) : l \in RespOrNone}
      [] OTHER -> {Raise(r, "error")}

\* app.invoke(initial_state): every final state, or exception, the graph can
\* end with, over all behaviours of the service and of the generated code
app_invoke ==
    UNION {dispatch(router_node(initial_state(CurQid, CurQid), o, t, d)) :
              o \in CallOutcomes, t \in RouterTypes, d \in RespOrNone}

\* -------------------------------------------------------------------- text
\* A text is the sequence of its characters.  The letters d-with-stroke of
\* the Vietnamese alphabet, which a TLA+ string cannot hold, are written "d/"
\* and "D/".

\* the letters str.upper and str.lower convert, in matching order
LOWERCASE ==
    <<"a", "b", "c", "d", "e", "f", "g", "h", "i", "j", "k", "l", "m", "n",
      "o", "p", "q", "r", "s", "t", "u", "v", "w", "x", "y", "z", "é", "ô",
      "d/", "ư", "ả", "ấ", "ẻ", "ế", "ể", "ố", "ỗ", "ờ", "ợ", "ừ">>
UPPERCASE ==
    <<"A", "B", "C", "D", "E", "F", "G", "H", "I", "J", "K", "L", "M", "N",
      "O", "P", "Q", "R", "S", "T", "U", "V", "W", "X", "Y", "Z", "É", "Ô",
      "D/", "Ư", "Ả", "Ấ", "Ẻ", "Ế", "Ể", "Ố", "Ỗ", "Ờ", "Ợ", "Ừ">>

\* the characters str.strip removes
Whitespace == {" ", "\n", "\t", "\r"}

\* the letters of the patterns [A-Z] and [A-J]
LettersAZ == {UPPERCASE[i] : i \in 1..26}
LettersAJ == {UPPERCASE[i] : i \in 1..10}

\* the upper-case letter of each lower-case letter, and the reverse
ToUpper ==
    [c \in {LOWERCASE[i] : i \in 1..Len(LOWERCASE)} |->
        UPPERCASE[CHOOSE i \in 1..Len(LOWERCASE) : LOWERCASE[i] = c]]
ToLower ==
    [c \in {UPPERCASE[i] : i \in 1..Len(UPPERCASE)} |->
        LOWERCASE[CHOOSE i \in 1..Len(UPPERCASE) : UPPERCASE[i] = c]]

upper_char(c) == IF c \in DOMAIN ToUpper THEN ToUpper[c] ELSE c
lower_char(c) == IF c \in DOMAIN ToLower THEN ToLower[c] ELSE c

\* str.upper, str.lower
upper(t) == [i \in 1..Len(t) |-> upper_char(t[i])]
lower(t) == [i \in 1..Len(t) |-> lower_char(t[i])]

\* str.strip
strip(t) ==
    LET first == CHOOSE i \in 1..Len(t) :
                    /\ t[i] \notin Whitespace
                    /\ \A j \in 1..(i - 1) : t[j] \in Whitespace
        last_ == CHOOSE i \in 1..Len(t) :
                    /\ t[i] \notin Whitespace
                    /\ \A j \in (i + 1)..Len(t) : t[j] \in Whitespace
    IN  IF \A i \in 1..Len(t) : t[i] \in Whitespace THEN <<>>
        ELSE SubSeq(t, first, last_)

\* sub in t
Contains(t, sub) ==
    /\ Len(sub) <= Len(t)
    /\ \E i \in 0..(Len(t) - Len(sub)) : SubSeq(t, i + 1, i + Len(sub)) = sub

\* t[:n]
Prefix(t, n) == SubSeq(t, 1, IF n < Len(t) THEN n ELSE Len(t))

\* re.match(r'([A-Z])', t): the letter t starts with, or "none"
match_letter(t) == IF t # <<>> /\ t[1] \in LettersAZ THEN t[1] ELSE "none"

\* re.match(r'^([A-J])\.\s*', choice): the enumeration letter of the choice,
\* or "none"
match_choice(choice) ==
    IF Len(choice) >= 2 /\ choice[1] \in LettersAJ /\ choice[2] = "."
    THEN choice[1] ELSE "none"

\* ------------------------------------------------------------ router, parsing
\* What json.loads gives is carried by the response: kind is "dict" for an
\* object, "value" for any other JSON value and "invalid" when json.loads
\* raises; a key of the object is absent, null, a str or of another type,
\* with str(value) and bool(value).

\* the classifier responses followed through the router: the text, what
\* json.loads gives for the part of it that r'\{[^}]+\}' matches, and what
\* it gives for the stripped text
Responses == {
    \* empty (also what the client returns on a transport failure)
    [text |->
        <<>>,
     loads_match |->
        [kind |-> "invalid", type |-> [is |-> "absent", str |-> <<>>, truthy |-> FALSE],
         toxic_detected |-> [is |-> "absent", str |-> <<>>, truthy |-> FALSE]],
     loads_whole |->
        [kind |-> "invalid", type |-> [is |-> "absent", str |-> <<>>, truthy |-> FALSE],
         toxic_detected |-> [is |-> "absent", str |-> <<>>, truthy |-> FALSE]]],
    \* {"type":"MATH","toxic_detected":null}
    [text |->
        <<"{", "\"", "t", "y", "p", "e", "\"", ":", "\"", "M", "A", "T", "H",
          "\"", ",", "\"", "t", "o", "x", "i", "c", "_", "d", "e", "t", "e",
          "c", "t", "e", "d", "\"", ":", "n", "u", "l", "l", "}">>,
     loads_match |->
        [kind |-> "dict", type |-> [is |-> "str", str |-> <<"M", "A", "T", "H">>, truthy |-> TRUE],
         toxic_detected |-> [is |-> "null", str |-> <<"N", "o", "n", "e">>, truthy |-> FALSE]],
     loads_whole |->
        [kind |-> "dict", type |-> [is |-> "str", str |-> <<"M", "A", "T", "H">>, truthy |-> TRUE],
         toxic_detected |-> [is |-> "null", str |-> <<"N", "o", "n", "e">>, truthy |-> FALSE]]],
    \* {"type":"rag","toxic_detected":null}
    [text |->
        <<"{", "\"", "t", "y", "p", "e", "\"", ":", "\"", "r", "a", "g", "\"",
          ",", "\"", "t", "o", "x", "i", "c", "_", "d", "e", "t", "e", "c",
          "t", "e", "d", "\"", ":", "n", "u", "l", "l", "}">>,
     loads_match |->
        [kind |-> "dict", type |-> [is |-> "str", str |-> <<"r", "a", "g">>, truthy |-> TRUE],
         toxic_detected |-> [is |-> "null", str |-> <<"N", "o", "n", "e">>, truthy |-> FALSE]],
     loads_whole |->
        [kind |-> "dict", type |-> [is |-> "str", str |-> <<"r", "a", "g">>, truthy |-> TRUE],
         toxic_detected |-> [is |-> "null", str |-> <<"N", "o", "n", "e">>, truthy |-> FALSE]]],
    \* {"type":"Reading"}
    [text |->
        <<"{", "\"", "t", "y", "p", "e", "\"", ":", "\"", "R", "e", "a", "d",
          "i", "n", "g", "\"", "}">>,
     loads_match |->
        [kind |-> "dict", type |-> [is |-> "str", str |-> <<"R", "e", "a", "d", "i", "n", "g">>, truthy |-> TRUE],
         toxic_detected |-> [is |-> "absent", str |-> <<>>, truthy |-> FALSE]],
     loads_whole |->
        [kind |-> "dict", type |-> [is |-> "str", str |-> <<"R", "e", "a", "d", "i", "n", "g">>, truthy |-> TRUE],
         toxic_detected |-> [is |-> "absent", str |-> <<>>, truthy |-> FALSE]]],
    \* {"type":"TOXIC","toxic_detected":"B"}
    [text |->
        <<"{", "\"", "t", "y", "p", "e", "\"", ":", "\"", "T", "O", "X", "I",
          "C", "\"", ",", "\"", "t", "o", "x", "i", "c", "_", "d", "e", "t",
          "e", "c", "t", "e", "d", "\"", ":", "\"", "B", "\"", "}">>,
     loads_match |->
        [kind |-> "dict", type |-> [is |-> "str", str |-> <<"T", "O", "X", "I", "C">>, truthy |-> TRUE],
         toxic_detected |-> [is |-> "str", str |-> <<"B">>, truthy |-> TRUE]],
     loads_whole |->
        [kind |-> "dict", type |-> [is |-> "str", str |-> <<"T", "O", "X", "I", "C">>, truthy |-> TRUE],
         toxic_detected |-> [is |-> "str", str |-> <<"B">>, truthy |-> TRUE]]],
    \* {"type":"toxic","toxic_detected":" b. "}
    [text |->
        <<"{", "\"", "t", "y", "p", "e", "\"", ":", "\"", "t", "o", "x", "i",
          "c", "\"", ",", "\"", "t", "o", "x", "i", "c", "_", "d", "e", "t",
          "e", "c", "t", "e", "d", "\"", ":", "\"", " ", "b", ".", " ", "\"",
          "}">>,
     loads_match |->
        [kind |-> "dict", type |-> [is |-> "str", str |-> <<"t", "o", "x", "i", "c">>, truthy |-> TRUE],
         toxic_detected |-> [is |-> "str", str |-> <<" ", "b", ".", " ">>, truthy |-> TRUE]],
     loads_whole |->
        [kind |-> "dict", type |-> [is |-> "str", str |-> <<"t", "o", "x", "i", "c">>, truthy |-> TRUE],
         toxic_detected |-> [is |-> "str", str |-> <<" ", "b", ".", " ">>, truthy |-> TRUE]]],
    \* {"type":"TOXIC","toxic_detected":null}
    [text |->
        <<"{", "\"", "t", "y", "p", "e", "\"", ":", "\"", "T", "O", "X", "I",
          "C", "\"", ",", "\"", "t", "o", "x", "i", "c", "_", "d", "e", "t",
          "e", "c", "t", "e", "d", "\"", ":", "n", "u", "l", "l", "}">>,
     loads_match |->
        [kind |-> "dict", type |-> [is |-> "str", str |-> <<"T", "O", "X", "I", "C">>, truthy |-> TRUE],
         toxic_detected |-> [is |-> "null", str |-> <<"N", "o", "n", "e">>, truthy |-> FALSE]],
     loads_whole |->
        [kind |-> "dict", type |-> [is |-> "str", str |-> <<"T", "O", "X", "I", "C">>, truthy |-> TRUE],
         toxic_detected |-> [is |-> "null", str |-> <<"N", "o", "n", "e">>, truthy |-> FALSE]]],
    \* {"type":"TOXIC","toxic_detected":"2"}
    [text |->
        <<"{", "\"", "t", "y", "p", "e", "\"", ":", "\"", "T", "O", "X", "I",
          "C", "\"", ",", "\"", "t", "o", "x", "i", "c", "_", "d", "e", "t",
          "e", "c", "t", "e", "d", "\"", ":", "\"", "2", "\"", "}">>,
     loads_match |->
        [kind |-> "dict", type |-> [is |-> "str", str |-> <<"T", "O", "X", "I", "C">>, truthy |-> TRUE],
         toxic_detected |-> [is |-> "str", str |-> <<"2">>, truthy |-> TRUE]],
     loads_whole |->
        [kind |-> "dict", type |-> [is |-> "str", str |-> <<"T", "O", "X", "I", "C">>, truthy |-> TRUE],
         toxic_detected |-> [is |-> "str", str |-> <<"2">>, truthy |-> TRUE]]],
    \* {"type":"TOXIC","toxic_detected":true}
    [text |->
        <<"{", "\"", "t", "y", "p", "e", "\"", ":", "\"", "T", "O", "X", "I",
          "C", "\"", ",", "\"", "t", "o", "x", "i", "c", "_", "d", "e", "t",
          "e", "c", "t", "e", "d", "\"", ":", "t", "r", "u", "e", "}">>,
     loads_match |->
        [kind |-> "dict", type |-> [is |-> "str", str |-> <<"T", "O", "X", "I", "C">>, truthy |-> TRUE],
         toxic_detected |-> [is |-> "other", str |-> <<"T", "r", "u", "e">>, truthy |-> TRUE]],
     loads_whole |->
        [kind |-> "dict", type |-> [is |-> "str", str |-> <<"T", "O", "X", "I", "C">>, truthy |-> TRUE],
         toxic_detected |-> [is |-> "other", str |-> <<"T", "r", "u", "e">>, truthy |-> TRUE]]],
    \* {"type":"OTHER"}
    [text |->
        <<"{", "\"", "t", "y", "p", "e", "\"", ":", "\"", "O", "T", "H", "E",
          "R", "\"", "}">>,
     loads_match |->
        [kind |-> "dict", type |-> [is |-> "str", str |-> <<"O", "T", "H", "E", "R">>, truthy |-> TRUE],
         toxic_detected |-> [is |-> "absent", str |-> <<>>, truthy |-> FALSE]],
     loads_whole |->
        [kind |-> "dict", type |-> [is |-> "str", str |-> <<"O", "T", "H", "E", "R">>, truthy |-> TRUE],
         toxic_detected |-> [is |-> "absent", str |-> <<>>, truthy |-> FALSE]]],
    \* {"type":"math "}
    [text |->
        <<"{", "\"", "t", "y", "p", "e", "\"", ":", "\"", "m", "a", "t", "h",
          " ", "\"", "}">>,
     loads_match |->
        [kind |-> "dict", type |-> [is |-> "str", str |-> <<"m", "a", "t", "h", " ">>, truthy |-> TRUE],
         toxic_detected |-> [is |-> "absent", str |-> <<>>, truthy |-> FALSE]],
     loads_whole |->
        [kind |-> "dict", type |-> [is |-> "str", str |-> <<"m", "a", "t", "h", " ">>, truthy |-> TRUE],
         toxic_detected |-> [is |-> "absent", str |-> <<>>, truthy |-> FALSE]]],
    \* {"toxic_detected":null}
    [text |->
        <<"{", "\"", "t", "o", "x", "i", "c", "_", "d", "e", "t", "e", "c",
          "t", "e", "d", "\"", ":", "n", "u", "l", "l", "}">>,
     loads_match |->
        [kind |-> "dict", type |-> [is |-> "absent", str |-> <<>>, truthy |-> FALSE],
         toxic_detected |-> [is |-> "null", str |-> <<"N", "o", "n", "e">>, truthy |-> FALSE]],
     loads_whole |->
        [kind |-> "dict", type |-> [is |-> "absent", str |-> <<>>, truthy |-> FALSE],
         toxic_detected |-> [is |-> "null", str |-> <<"N", "o", "n", "e">>, truthy |-> FALSE]]],
    \* {"type":5}
    [text |->
        <<"{", "\"", "t", "y", "p", "e", "\"", ":", "5", "}">>,
     loads_match |->
        [kind |-> "dict", type |-> [is |-> "other", str |-> <<"5">>, truthy |-> TRUE],
         toxic_detected |-> [is |-> "absent", str |-> <<>>, truthy |-> FALSE]],
     loads_whole |->
        [kind |-> "dict", type |-> [is |-> "other", str |-> <<"5">>, truthy |-> TRUE],
         toxic_detected |-> [is |-> "absent", str |-> <<>>, truthy |-> FALSE]]],
    \* {"type":null,"note":"MATH"}
    [text |->
        <<"{", "\"", "t", "y", "p", "e", "\"", ":", "n", "u", "l", "l", ",",
          "\"", "n", "o", "t", "e", "\"", ":", "\"", "M", "A", "T", "H", "\"",
          "}">>,
     loads_match |->
        [kind |-> "dict", type |-> [is |-> "null", str |-> <<"N", "o", "n", "e">>, truthy |-> FALSE],
         toxic_detected |-> [is |-> "absent", str |-> <<>>, truthy |-> FALSE]],
     loads_whole |->
        [kind |-> "dict", type |-> [is |-> "null", str |-> <<"N", "o", "n", "e">>, truthy |-> FALSE],
         toxic_detected |-> [is |-> "absent", str |-> <<>>, truthy |-> FALSE]]],
    \* {"type":"RAG","meta":{"k":"MATH"}}
    [text |->
        <<"{", "\"", "t", "y", "p", "e", "\"", ":", "\"", "R", "A", "G", "\"",
          ",", "\"", "m", "e", "t", "a", "\"", ":", "{", "\"", "k", "\"", ":",
          "\"", "M", "A", "T", "H", "\"", "}", "}">>,
     loads_match |->
        [kind |-> "invalid", type |-> [is |-> "absent", str |-> <<>>, truthy |-> FALSE],
         toxic_detected |-> [is |-> "absent", str |-> <<>>, truthy |-> FALSE]],
     loads_whole |->
        [kind |-> "dict", type |-> [is |-> "str", str |-> <<"R", "A", "G">>, truthy |-> TRUE],
         toxic_detected |-> [is |-> "absent", str |-> <<>>, truthy |-> FALSE]]],
    \* {"type":"MATH"
    [text |->
        <<"{", "\"", "t", "y", "p", "e", "\"", ":", "\"", "M", "A", "T", "H",
          "\"">>,
     loads_match |->
        [kind |-> "invalid", type |-> [is |-> "absent", str |-> <<>>, truthy |-> FALSE],
         toxic_detected |-> [is |-> "absent", str |-> <<>>, truthy |-> FALSE]],
     loads_whole |->
        [kind |-> "invalid", type |-> [is |-> "absent", str |-> <<>>, truthy |-> FALSE],
         toxic_detected |-> [is |-> "absent", str |-> <<>>, truthy |-> FALSE]]],
    \* {type: READING}
    [text |->
        <<"{", "t", "y", "p", "e", ":", " ", "R", "E", "A", "D", "I", "N",
          "G", "}">>,
     loads_match |->
        [kind |-> "invalid", type |-> [is |-> "absent", str |-> <<>>, truthy |-> FALSE],
         toxic_detected |-> [is |-> "absent", str |-> <<>>, truthy |-> FALSE]],
     loads_whole |->
        [kind |-> "invalid", type |-> [is |-> "absent", str |-> <<>>, truthy |-> FALSE],
         toxic_detected |-> [is |-> "absent", str |-> <<>>, truthy |-> FALSE]]],
    \* "MATH"
    [text |->
        <<"\"", "M", "A", "T", "H", "\"">>,
     loads_match |->
        [kind |-> "invalid", type |-> [is |-> "absent", str |-> <<>>, truthy |-> FALSE],
         toxic_detected |-> [is |-> "absent", str |-> <<>>, truthy |-> FALSE]],
     loads_whole |->
        [kind |-> "value", type |-> [is |-> "absent", str |-> <<>>, truthy |-> FALSE],
         toxic_detected |-> [is |-> "absent", str |-> <<>>, truthy |-> FALSE]]],
    \* [1, 2]
    [text |->
        <<"[", "1", ",", " ", "2", "]">>,
     loads_match |->
        [kind |-> "invalid", type |-> [is |-> "absent", str |-> <<>>, truthy |-> FALSE],
         toxic_detected |-> [is |-> "absent", str |-> <<>>, truthy |-> FALSE]],
     loads_whole |->
        [kind |-> "value", type |-> [is |-> "absent", str |-> <<>>, truthy |-> FALSE],
         toxic_detected |-> [is |-> "absent", str |-> <<>>, truthy |-> FALSE]]],
    \* MATH
    [text |->
        <<"M", "A", "T", "H">>,
     loads_match |->
        [kind |-> "invalid", type |-> [is |-> "absent", str |-> <<>>, truthy |-> FALSE],
         toxic_detected |-> [is |-> "absent", str |-> <<>>, truthy |-> FALSE]],
     loads_whole |->
        [kind |-> "invalid", type |-> [is |-> "absent", str |-> <<>>, truthy |-> FALSE],
         toxic_detected |-> [is |-> "absent", str |-> <<>>, truthy |-> FALSE]]],
    \* math
    [text |->
        <<"m", "a", "t", "h">>,
     loads_match |->
        [kind |-> "invalid", type |-> [is |-> "absent", str |-> <<>>, truthy |-> FALSE],
         toxic_detected |-> [is |-> "absent", str |-> <<>>, truthy |-> FALSE]],
     loads_whole |->
        [kind |-> "invalid", type |-> [is |-> "absent", str |-> <<>>, truthy |-> FALSE],
         toxic_detected |-> [is |-> "absent", str |-> <<>>, truthy |-> FALSE]]],
    \* This is TOXIC, not MATH
    [text |->
        <<"T", "h", "i", "s", " ", "i", "s", " ", "T", "O", "X", "I", "C",
          ",", " ", "n", "o", "t", " ", "M", "A", "T", "H">>,
     loads_match |->
        [kind |-> "invalid", type |-> [is |-> "absent", str |-> <<>>, truthy |-> FALSE],
         toxic_detected |-> [is |-> "absent", str |-> <<>>, truthy |-> FALSE]],
     loads_whole |->
        [kind |-> "invalid", type |-> [is |-> "absent", str |-> <<>>, truthy |-> FALSE],
         toxic_detected |-> [is |-> "absent", str |-> <<>>, truthy |-> FALSE]]],
    \* MATH or READING
    [text |->
        <<"M", "A", "T", "H", " ", "o", "r", " ", "R", "E", "A", "D", "I",
          "N", "G">>,
     loads_match |->
        [kind |-> "invalid", type |-> [is |-> "absent", str |-> <<>>, truthy |-> FALSE],
         toxic_detected |-> [is |-> "absent", str |-> <<>>, truthy |-> FALSE]],
     loads_whole |->
        [kind |-> "invalid", type |-> [is |-> "absent", str |-> <<>>, truthy |-> FALSE],
         toxic_detected |-> [is |-> "absent", str |-> <<>>, truthy |-> FALSE]]],
    \* MATH {"type":"RAG"}
    [text |->
        <<"M", "A", "T", "H", " ", "{", "\"", "t", "y", "p", "e", "\"", ":",
          "\"", "R", "A", "G", "\"", "}">>,
     loads_match |->
        [kind |-> "dict", type |-> [is |-> "str", str |-> <<"R", "A", "G">>, truthy |-> TRUE],
         toxic_detected |-> [is |-> "absent", str |-> <<>>, truthy |-> FALSE]],
     loads_whole |->
        [kind |-> "invalid", type |-> [is |-> "absent", str |-> <<>>, truthy |-> FALSE],
         toxic_detected |-> [is |-> "absent", str |-> <<>>, truthy |-> FALSE]]],
    \* I think reading
    [text |->
        <<"I", " ", "t", "h", "i", "n", "k", " ", "r", "e", "a", "d", "i",
          "n", "g">>,
     loads_match |->
        [kind |-> "invalid", type |-> [is |-> "absent", str |-> <<>>, truthy |-> FALSE],
         toxic_detected |-> [is |-> "absent", str |-> <<>>, truthy |-> FALSE]],
     loads_whole |->
        [kind |-> "invalid", type |-> [is |-> "absent", str |-> <<>>, truthy |-> FALSE],
         toxic_detected |-> [is |-> "absent", str |-> <<>>, truthy |-> FALSE]]],
    \* unknown
    [text |->
        <<"u", "n", "k", "n", "o", "w", "n">>,
     loads_match |->
        [kind |-> "invalid", type |-> [is |-> "absent", str |-> <<>>, truthy |-> FALSE],
         toxic_detected |-> [is |-> "absent", str |-> <<>>, truthy |-> FALSE]],
     loads_whole |->
        [kind |-> "invalid", type |-> [is |-> "absent", str |-> <<>>, truthy |-> FALSE],
         toxic_detected |-> [is |-> "absent", str |-> <<>>, truthy |-> FALSE]]]}

\* the response the client returns on a transport failure: ""
EmptyResponse == CHOOSE r \in Responses : r.text = <<>>

\* the response {"type":"TOXIC","toxic_detected":"B"}
ToxicB ==
    CHOOSE r \in Responses :
        r.text = <<"{", "\"", "t", "y", "p", "e", "\"", ":", "\"", "T", "O", "X",
              "I", "C", "\"", ",", "\"", "t", "o", "x", "i", "c", "_", "d",
              "e", "t", "e", "c", "t", "e", "d", "\"", ":", "\"", "B", "\"",
              "}">>

\* re.search(r'\{[^}]+\}', response) finds a match: a "{", at least one
\* character other than "}", and a "}"
json_match(t) ==
    \E i \in 1..Len(t) :
        /\ t[i] = "{"
        /\ i + 1 <= Len(t)
        /\ t[i + 1] # "}"
        /\ \E j \in (i + 2)..Len(t) : t[j] = "}"

\* the keyword scan of the raw response
keyword_scan(t) ==
    LET response_upper == upper(strip(t))
    IN  IF Contains(response_upper, <<"T", "O", "X", "I", "C">>)
        THEN <<"T", "O", "X", "I", "C">>
        ELSE IF Contains(response_upper, <<"M", "A", "T", "H">>)
        THEN <<"M", "A", "T", "H">>
        ELSE IF Contains(response_upper,
                         <<"R", "E", "A", "D", "I", "N", "G">>)
        THEN <<"R", "E", "A", "D", "I", "N", "G">>
        ELSE <<"R", "A", "G">>

\* a router whose keyword scan looks for READING before MATH
classify_ReadingFirst(r) ==
    LET result == IF json_match(r.text) THEN r.loads_match ELSE r.loads_whole
        response_upper == upper(strip(r.text))
    IN  IF result.kind = "dict" /\ result.type.is \in {"absent", "str"}
        THEN [q_type |-> IF result.type.is = "absent" THEN <<"R", "A", "G">>
                         ELSE upper(result.type.str),
              toxic_detected |-> result.toxic_detected]
        ELSE [q_type |->
                IF Contains(response_upper, <<"T", "O", "X", "I", "C">>)
                THEN <<"T", "O", "X", "I", "C">>
                ELSE IF Contains(response_upper,
                                 <<"R", "E", "A", "D", "I", "N", "G">>)
                THEN <<"R", "E", "A", "D", "I", "N", "G">>
                ELSE IF Contains(response_upper, <<"M", "A", "T", "H">>)
                THEN <<"M", "A", "T", "H">>
                ELSE <<"R", "A", "G">>,
              toxic_detected |-> [is |-> "null", str |-> <<>>, truthy |-> FALSE]]

\* a router without the except branch: a response it cannot parse raises
classify_NoFallback(r) ==
    LET result == IF json_match(r.text) THEN r.loads_match ELSE r.loads_whole
    IN  IF result.kind = "dict" /\ result.type.is \in {"absent", "str"}
        THEN [q_type |-> IF result.type.is = "absent" THEN <<"R", "A", "G">>
                         ELSE upper(result.type.str),
              toxic_detected |-> result.toxic_detected]
        ELSE [q_type |-> <<>>,
              toxic_detected |-> [is |-> "null", str |-> <<>>, truthy |-> FALSE]]

\* router_node, the parsing of the response: q_type and toxic_detected from
\* the JSON object when json.loads, result.get and .upper() all succeed, from
\* the keyword scan when any of them raises
classify(r) ==
    LET result == IF json_match(r.text) THEN r.loads_match ELSE r.loads_whole
    IN  IF result.kind = "dict" /\ result.type.is \in {"absent", "str"}
        THEN [q_type |-> IF result.type.is = "absent" THEN <<"R", "A", "G">>
                         ELSE upper(result.type.str),
              toxic_detected |-> result.toxic_detected]
        ELSE [q_type |-> keyword_scan(r.text),
              toxic_detected |-> [is |-> "null", str |-> <<>>, truthy |-> FALSE]]

\* state["category"] = q_type.lower(), as the key the conditional edge looks
\* up: one of the four names, "" for a parse that raised out of the router,
\* and "other" for every other text
category_of(q_type) ==
    LET c == lower(q_type)
    IN  CASE c = <<"m", "a", "t", "h">> -> "math"
          [] c = <<"r", "a", "g">> -> "rag"
          [] c = <<"r", "e", "a", "d", "i", "n", "g">> -> "reading"
          [] c = <<"t", "o", "x", "i", "c">> -> "toxic"
          [] c = <<>> -> ""
          [] OTHER -> "other"

\* router_node, the letter it takes from toxic_detected, or "none"
toxic_char(c) ==
    IF c.q_type = <<"T", "O", "X", "I", "C">> /\ c.toxic_detected.truthy
    THEN match_letter(upper(strip(c.toxic_detected.str)))
    ELSE "none"

\* ------------------------------------------------------------- toxic, scan

TOXIC_KEYWORDS == {
    \* tôi không thể trả lời
    <<"t", "ô", "i", " ", "k", "h", "ô", "n", "g", " ", "t", "h", "ể", " ",
      "t", "r", "ả", " ", "l", "ờ", "i">>,
    \* tôi không biết
    <<"t", "ô", "i", " ", "k", "h", "ô", "n", "g", " ", "b", "i", "ế", "t">>,
    \* tôi không thể cung cấp
    <<"t", "ô", "i", " ", "k", "h", "ô", "n", "g", " ", "t", "h", "ể", " ",
      "c", "u", "n", "g", " ", "c", "ấ", "p">>,
    \* không thể chia sẻ
    <<"k", "h", "ô", "n", "g", " ", "t", "h", "ể", " ", "c", "h", "i", "a",
      " ", "s", "ẻ">>,
    \* không thể hỗ trợ
    <<"k", "h", "ô", "n", "g", " ", "t", "h", "ể", " ", "h", "ỗ", " ", "t",
      "r", "ợ">>,
    \* không được phép
    <<"k", "h", "ô", "n", "g", " ", "d/", "ư", "ợ", "c", " ", "p", "h", "é",
      "p">>,
    \* từ chối trả lời
    <<"t", "ừ", " ", "c", "h", "ố", "i", " ", "t", "r", "ả", " ", "l", "ờ",
      "i">>,
    \* không thể đưa ra
    <<"k", "h", "ô", "n", "g", " ", "t", "h", "ể", " ", "d/", "ư", "a", " ",
      "r", "a">>,
    \* không cung cấp
    <<"k", "h", "ô", "n", "g", " ", "c", "u", "n", "g", " ", "c", "ấ", "p">>}

\* the lists of choices followed through the graph
ChoiceLists == {
    \* ["A. 42", "B. I cannot answer this question"]
    <<<<"A", ".", " ", "4", "2">>,
      <<"B", ".", " ", "I", " ", "c", "a", "n", "n", "o", "t", " ", "a", "n",
        "s", "w", "e", "r", " ", "t", "h", "i", "s", " ", "q", "u", "e", "s",
        "t", "i", "o", "n">>>>,
    \* ["A. 1", "B. Tôi không thể trả lời"]
    <<<<"A", ".", " ", "1">>,
      <<"B", ".", " ", "T", "ô", "i", " ", "k", "h", "ô", "n", "g", " ", "t",
        "h", "ể", " ", "t", "r", "ả", " ", "l", "ờ", "i">>>>,
    \* ["A. 1", "B. 2", "C. TÔI KHÔNG BIẾT"]
    <<<<"A", ".", " ", "1">>,
      <<"B", ".", " ", "2">>,
      <<"C", ".", " ", "T", "Ô", "I", " ", "K", "H", "Ô", "N", "G", " ", "B",
        "I", "Ế", "T">>>>,
    \* ["A. 1", "B Tôi không thể trả lời", "C. Tôi không biết"]
    <<<<"A", ".", " ", "1">>,
      <<"B", " ", "T", "ô", "i", " ", "k", "h", "ô", "n", "g", " ", "t", "h",
      "ể", " ", "t", "r", "ả", " ", "l", "ờ", "i">>,
      <<"C", ".", " ", "T", "ô", "i", " ", "k", "h", "ô", "n", "g", " ", "b",
      "i", "ế", "t">>>>,
    \* ["A 1", "B 2"]
    <<<<"A", " ", "1">>, <<"B", " ", "2">>>>}

\* the choices ["A. 42", "B. I cannot answer this question"]
Choices42 ==
    CHOOSE c \in ChoiceLists : c[1] = <<"A", ".", " ", "4", "2">>

\* a scan that takes the first choice with an enumeration letter
refusal_scan_FirstLettered(cs) ==
    LET lettered == {i \in 1..Len(cs) : match_choice(cs[i]) # "none"}
    IN  IF lettered # {}
        THEN match_choice(cs[CHOOSE i \in lettered : \A j \in lettered : i <= j])
        ELSE "none"

\* toxic_checker_node, the scan: the letter of the first choice that contains
\* a refusal keyword and matches the enumeration pattern, else the letter of
\* the first choice that matches the pattern, else "none"
refusal_scan(cs) ==
    LET refusals == {i \in 1..Len(cs) :
                        /\ \E keyword \in TOXIC_KEYWORDS :
                              Contains(lower(cs[i]), keyword)
                        /\ match_choice(cs[i]) # "none"}
        lettered == {i \in 1..Len(cs) : match_choice(cs[i]) # "none"}
        first(S) == CHOOSE i \in S : \A j \in S : i <= j
    IN  IF refusals # {} THEN match_choice(cs[first(refusals)])
        ELSE IF lettered # {} THEN match_choice(cs[first(lettered)])
        ELSE "none"

\* ----------------------------------------------------------- math, snippets
\* A snippet is what extract_code_block left of a response: the names it
\* reads that it does not define itself (uses), the names it defines, what it
\* does after that (prints text, raises the exception whose last traceback
\* line is text, or asks the interpreter to exit), and that text.

Names == {"x"}

\* the code left of an empty response
EmptyCode ==
    [uses |-> {}, defines |-> {}, does |-> "print", text |-> <<>>]

Snippets == {
    EmptyCode,
    \* print(42)
    [uses |-> {}, defines |-> {}, does |-> "print", text |-> <<"4", "2">>],
    \* x = 3; print(x / 0)
    [uses |-> {}, defines |-> {"x"}, does |-> "raise", text |->
        <<"Z", "e", "r", "o", "D", "i", "v", "i", "s", "i", "o", "n", "E",
          "r", "r", "o", "r", ":", " ", "d", "i", "v", "i", "s", "i", "o",
          "n", " ", "b", "y", " ", "z", "e", "r", "o">>],
    \* print("Error: no solution")
    [uses |-> {}, defines |-> {}, does |-> "print", text |->
        <<"E", "r", "r", "o", "r", ":", " ", "n", "o", " ", "s", "o", "l",
          "u", "t", "i", "o", "n">>],
    \* print("no errors found")
    [uses |-> {}, defines |-> {}, does |-> "print", text |->
        <<"n", "o", " ", "e", "r", "r", "o", "r", "s", " ", "f", "o", "u",
          "n", "d">>],
    \* print(x + 4)
    [uses |-> {"x"}, defines |-> {}, does |-> "print", text |-> <<"7">>],
    \* import sys; sys.exit(0)
    [uses |-> {}, defines |-> {}, does |-> "exit", text |-> <<>>]}

\* traceback.format_exc() for an exception raised by the snippet
format_exc(line) ==
    <<"T", "r", "a", "c", "e", "b", "a", "c", "k", " ", "(", "m", "o", "s",
      "t", " ", "r", "e", "c", "e", "n", "t", " ", "c", "a", "l", "l", " ",
      "l", "a", "s", "t", ")", ":", "\n", " ", " ", "F", "i", "l", "e", " ",
      "\"", "s", "o", "l", "v", "e", "r", ".", "p", "y", "\"", ",", " ", "l",
      "i", "n", "e", " ", "2", "9", ",", " ", "i", "n", " ", "r", "u", "n",
      "\n", " ", " ", " ", " ", "e", "x", "e", "c", "(", "c", "o", "d", "e",
      ",", " ", "n", "a", "m", "e", "s", "p", "a", "c", "e", ",", " ", "n",
      "a", "m", "e", "s", "p", "a", "c", "e", ")", "\n", " ", " ", "F", "i",
      "l", "e", " ", "\"", "<", "s", "t", "r", "i", "n", "g", ">", "\"", ",",
      " ", "l", "i", "n", "e", " ", "1", ",", " ", "i", "n", " ", "<", "m",
      "o", "d", "u", "l", "e", ">", "\n">>
    \o line \o <<"\n">>

\* the last traceback line of the NameError for a name that is not visible
NameErrorLine ==
    <<"N", "a", "m", "e", "E", "r", "r", "o", "r", ":", " ", "n", "a", "m",
      "e", " ", "'", "x", "'", " ", "i", "s", " ", "n", "o", "t", " ", "d",
      "e", "f", "i", "n", "e", "d">>

\* an executor that runs every snippet in self.globals
run_SharedGlobals(ex, code) ==
    LET namespace == ex.globals
    IN  IF ~(code.uses \subseteq namespace)
        THEN [exit |-> FALSE, raised |-> TRUE,
              result |-> format_exc(NameErrorLine), executor |-> ex]
        ELSE [exit |-> code.does = "exit", raised |-> code.does = "raise",
              result |-> CASE code.does = "print" -> strip(code.text)
                           [] code.does = "raise" -> format_exc(code.text)
                           [] code.does = "exit" -> <<>>,
              executor |-> [ex EXCEPT !.globals = @ \cup code.defines]]

\* SafePythonExecutor.run: exec of the snippet in a namespace that starts
\* empty; the captured output, or the traceback of an Exception; exit is TRUE
\* when the snippet raised SystemExit, which run does not catch
run(ex, code) ==
    LET namespace == {}
    IN  IF ~(code.uses \subseteq namespace)
        THEN [exit |-> FALSE, raised |-> TRUE,
              result |-> format_exc(NameErrorLine), executor |-> ex]
        ELSE [exit |-> code.does = "exit", raised |-> code.does = "raise",
              result |-> CASE code.does = "print" -> strip(code.text)
                           [] code.does = "raise" -> format_exc(code.text)
                           [] code.does = "exit" -> <<>>,
              executor |-> ex]

\* math_solver_node: the names it looks for in the output of an execution
error_indicators == {
    <<"E", "r", "r", "o", "r">>,
    <<"E", "x", "c", "e", "p", "t", "i", "o", "n">>,
    <<"T", "r", "a", "c", "e", "b", "a", "c", "k">>,
    <<"N", "a", "m", "e", "E", "r", "r", "o", "r">>,
    <<"V", "a", "l", "u", "e", "E", "r", "r", "o", "r">>,
    <<"T", "y", "p", "e", "E", "r", "r", "o", "r">>,
    <<"S", "y", "n", "t", "a", "x", "E", "r", "r", "o", "r">>,
    <<"I", "n", "d", "e", "n", "t", "a", "t", "i", "o", "n", "E", "r", "r",
      "o", "r">>,
    <<"A", "t", "t", "r", "i", "b", "u", "t", "e", "E", "r", "r", "o", "r">>,
    <<"K", "e", "y", "E", "r", "r", "o", "r">>,
    <<"I", "n", "d", "e", "x", "E", "r", "r", "o", "r">>,
    <<"Z", "e", "r", "o", "D", "i", "v", "i", "s", "i", "o", "n", "E", "r",
      "r", "o", "r">>,
    <<"I", "m", "p", "o", "r", "t", "E", "r", "r", "o", "r">>,
    <<"M", "o", "d", "u", "l", "e", "N", "o", "t", "F", "o", "u", "n", "d",
      "E", "r", "r", "o", "r">>,
    <<"O", "v", "e", "r", "f", "l", "o", "w", "E", "r", "r", "o", "r">>,
    <<"R", "e", "c", "u", "r", "s", "i", "o", "n", "E", "r", "r", "o", "r">>,
    <<"A", "s", "s", "e", "r", "t", "i", "o", "n", "E", "r", "r", "o", "r">>,
    <<"S", "y", "s", "t", "e", "m", "E", "r", "r", "o", "r">>,
    <<"U", "n", "b", "o", "u", "n", "d", "L", "o", "c", "a", "l", "E", "r",
      "r", "o", "r">>,
    <<"N", "o", "t", "I", "m", "p", "l", "e", "m", "e", "n", "t", "e", "d",
      "E", "r", "r", "o", "r">>,
    <<"T", "i", "m", "e", "o", "u", "t", "E", "r", "r", "o", "r">>,
    <<"F", "l", "o", "a", "t", "i", "n", "g", "P", "o", "i", "n", "t", "E",
      "r", "r", "o", "r">>,
    <<"R", "e", "f", "e", "r", "e", "n", "c", "e", "E", "r", "r", "o", "r">>,
    <<"E", "O", "F", "E", "r", "r", "o", "r">>,
    <<"S", "t", "o", "p", "I", "t", "e", "r", "a", "t", "i", "o", "n">>,
    <<"A", "r", "i", "t", "h", "m", "e", "t", "i", "c", "E", "r", "r", "o",
      "r">>,
    <<"L", "o", "o", "k", "u", "p", "E", "r", "r", "o", "r">>,
    <<"R", "u", "n", "t", "i", "m", "e", "E", "r", "r", "o", "r">>,
    <<"M", "e", "m", "o", "r", "y", "E", "r", "r", "o", "r">>,
    <<"B", "u", "f", "f", "e", "r", "E", "r", "r", "o", "r">>,
    <<"T", "a", "b", "E", "r", "r", "o", "r">>,
    <<"U", "n", "i", "c", "o", "d", "e", "E", "r", "r", "o", "r">>,
    <<"U", "n", "i", "c", "o", "d", "e", "E", "n", "c", "o", "d", "e", "E",
      "r", "r", "o", "r">>,
    <<"U", "n", "i", "c", "o", "d", "e", "D", "e", "c", "o", "d", "e", "E",
      "r", "r", "o", "r">>,
    <<"O", "S", "E", "r", "r", "o", "r">>,
    <<"F", "i", "l", "e", "N", "o", "t", "F", "o", "u", "n", "d", "E", "r",
      "r", "o", "r">>,
    <<"P", "e", "r", "m", "i", "s", "s", "i", "o", "n", "E", "r", "r", "o",
      "r">>,
    <<"C", "o", "n", "n", "e", "c", "t", "i", "o", "n", "E", "r", "r", "o",
      "r">>,
    <<"B", "l", "o", "c", "k", "i", "n", "g", "I", "O", "E", "r", "r", "o",
      "r">>}

\* a check that compares the names as they are written
has_error_CaseSensitive(execution_result) ==
    \E indicator \in error_indicators : Contains(execution_result, indicator)

\* math_solver_node: the case-insensitive check of the output
has_error(execution_result) ==
    LET result_lower == lower(execution_result)
    IN  \E indicator \in error_indicators :
            Contains(result_lower, lower(indicator))

NO_OUTPUT == <<"N", "o", " ", "o", "u", "t", "p", "u", "t">>

\* execution_result.strip() if execution_result else "No output"
or_no_output(result) == IF result # <<>> THEN strip(result) ELSE NO_OUTPUT

\* f"{type(e).__name__}: {str(e)}" for the RuntimeError the loop raises
error_msg_of(execution_result) ==
    <<"R", "u", "n", "t", "i", "m", "e", "E", "r", "r", "o", "r", ":", " ",
      "E", "x", "e", "c", "u", "t", "i", "o", "n", " ", "p", "r", "o", "d",
      "u", "c", "e", "d", " ", "e", "r", "r", "o", "r", ":", " ">>
    \o execution_result

\* f"Error after {max_retries + 1} attempts: {error_msg}"
error_after(error_msg) ==
    <<"E", "r", "r", "o", "r", " ", "a", "f", "t", "e", "r", " ", "3", " ",
      "a", "t", "t", "e", "m", "p", "t", "s", ":", " ">>
    \o error_msg

\* the length execution_result is cut to in state["reasoning"]
RESULT_LIMIT == 100

\* the length the reasoning is cut to in the checkpoint record
REASONING_LIMIT == 200

\* state["reasoning"] of math_solver_node
reasoning_of(execution_result) ==
    <<"C", "o", "d", "e", " ", "e", "x", "e", "c", "u", "t", "e", "d", ".",
      " ", "R", "e", "s", "u", "l", "t", ":", " ">>
    \o Prefix(execution_result, RESULT_LIMIT)

\* a loop that asks for a repair after the last attempt too
retry_allowed_Always(attempt) == attempt <= max_retries

\* attempt < max_retries: a repair is requested and the loop goes on
retry_allowed(attempt) == attempt < max_retries

\* the locals of math_solver_node before the node runs
MathIdle ==
    [step |-> "idle", code |-> EmptyCode, attempt |-> 0,
     execution_result |-> <<>>, output |-> <<>>, raised |-> FALSE,
     executions |-> 0, failures |-> 0, repairs |-> 0, error_msg |-> <<>>,
     reasoning |-> <<>>]

\* the module-level executor: self.globals = {}
NewExecutor == [globals |-> {}]

\* ---------------------------------------------------------- rag, retrieval
\* A point of the store is [id, score]: the id of a chunk and its similarity
\* to the query, in hundredths.  The payload of a point is looked up by its id.
\* The queries of one search are numbered from 1 in the order of the list;
\* their texts are numbered too, and two queries of a list may have one text.

\* number of chunks in the collection
NumDocs == 3
\* longest list of queries handed to search_multi_query
NumQueries == 2

DocIds == 1..NumDocs

TOP_K_PER_QUERY == 10
FINAL_TOP_K == 5
\* MIN_SCORE_THRESHOLD = 0.3, in hundredths
MIN_SCORE_THRESHOLD == 30
\* k of reciprocal_rank_fusion
RRF_K == 60
\* max_context_length of format_context
MAX_CONTEXT_LENGTH == 6000
\* the length of the content prefix that is hashed
HASH_PREFIX == 200
\* the space below which format_context stops instead of truncating
MIN_REMAINING == 200

\* the similarities a chunk can have to a query, in hundredths: one below
\* the threshold and one above it
Scores == {10, 90}

\* the sequence of n copies of the character c
Fill(c, n) == [i \in 1..n |-> c]

\* the set of elements of a sequence
Range(s) == {s[i] : i \in 1..Len(s)}

\* the elements of a sequence in the order of their first occurrence
RECURSIVE Dedupe(_)
Dedupe(s) ==
    IF s = <<>> THEN <<>>
    ELSE LET r == Dedupe(SubSeq(s, 1, Len(s) - 1))
         IN  IF s[Len(s)] \in Range(r) THEN r ELSE Append(r, s[Len(s)])

\* every arrangement of the elements of a finite set in a sequence
Arrangements(S) ==
    {a \in [1..Cardinality(S) -> S] :
        \A i, j \in 1..Cardinality(S) : i # j => a[i] # a[j]}

\* qdrant.query_points(query, limit, score_threshold).points for a store in
\* which chunk d has similarity sim[d] to the query: the chunks that reach
\* the threshold, best first, at most limit of them; chunks of equal
\* similarity come in any order
query_points(sim, limit, score_threshold) ==
    LET found == {d \in DocIds : sim[d] >= score_threshold}
        ranked == {a \in Arrangements(found) :
                      \A i, j \in 1..Len(a) : i < j => sim[a[i]] >= sim[a[j]]}
    IN  {[i \in 1..(IF Len(a) < limit THEN Len(a) ELSE limit) |->
            [id |-> a[i], score |-> sim[a[i]]]] : a \in ranked}

\* a search that does not pass the threshold to the store
search_NoThreshold(sim) == query_points(sim, TOP_K_PER_QUERY, 0)

\* search_multi_query, the search of one query
search(sim) == query_points(sim, TOP_K_PER_QUERY, MIN_SCORE_THRESHOLD)

\* A score is kept exact, as the fraction [num, den] of two integers (the
\* floats of the code differ from it by rounding only).
ZERO_SCORE == [num |-> 0, den |-> 1]

\* a + b
score_add(a, b) ==
    [num |-> a.num * b.den + b.num * a.den, den |-> a.den * b.den]

\* whether an/ad is greater than, equal to or less than bn/bd, by the whole parts and then the
\* fractional parts, with no product of two denominators
RECURSIVE score_cmp(_, _, _, _)
score_cmp(an, ad, bn, bd) ==
    LET qa == an \div ad
        qb == bn \div bd
        ra == an % ad
        rb == bn % bd
    IN  IF qa # qb THEN (IF qa > qb THEN "gt" ELSE "lt")
        ELSE IF ra = 0 /\ rb = 0 THEN "eq"
        ELSE IF ra = 0 THEN "lt"
        ELSE IF rb = 0 THEN "gt"
        ELSE score_cmp(bd, rb, ad, ra)

\* a >= b, a > b and a = b for scores
score_ge(a, b) == score_cmp(a.num, a.den, b.num, b.den) \in {"gt", "eq"}
score_gt(a, b) == score_cmp(a.num, a.den, b.num, b.den) = "gt"
score_eq(a, b) == score_cmp(a.num, a.den, b.num, b.den) = "eq"

\* rrf_score = 1.0 / (k + rank + 1)
rrf_score(rank) == [num |-> 1, den |-> RRF_K + rank + 1]

\* a fusion that keeps the best term of a document instead of the sum
accumulate_Max(total, rrf) == IF score_gt(rrf, total) THEN rrf ELSE total

\* doc_scores[doc_id]['rrf_score'] += rrf_score
accumulate(total, rrf) == score_add(total, rrf)

\* query_rankings: the points of each query, in the order of the results
query_rankings(results) ==
    [q \in {results[i].query : i \in 1..Len(results)} |->
        LET own == SelectSeq(results, LAMBDA r : r.query = q)
        IN  [i \in 1..Len(own) |-> own[i].point]]

\* the (rank, point) pairs in the order the scoring loop visits them: query
\* by query in the order the queries first occur, each ranking from rank 0
RECURSIVE visits(_, _)
visits(rankings, qs) ==
    IF qs = <<>> THEN <<>>
    ELSE LET points == rankings[qs[1]]
         IN  [i \in 1..Len(points) |-> [rank |-> i - 1, point |-> points[i]]]
             \o visits(rankings, SubSeq(qs, 2, Len(qs)))

rrf_visits(results) ==
    visits(query_rankings(results),
           Dedupe([i \in 1..Len(results) |-> results[i].query]))

\* doc_scores after the scoring loop: for every document its rrf_score and
\* the point stored last
RECURSIVE doc_scores(_)
doc_scores(v) ==
    IF v = <<>> THEN <<>>
    ELSE LET before == doc_scores(SubSeq(v, 1, Len(v) - 1))
             this == v[Len(v)]
             at == {i \in 1..Len(before) : before[i].point.id = this.point.id}
         IN  IF at = {}
             THEN Append(before,
                         [point |-> this.point,
                          rrf_score |-> accumulate(ZERO_SCORE,
                                                    rrf_score(this.rank))])
             ELSE [i \in 1..Len(before) |->
                     IF i \in at
                     THEN [point |-> this.point,
                           rrf_score |-> accumulate(before[i].rrf_score,
                                                    rrf_score(this.rank))]
                     ELSE before[i]]

\* sorted(..., key = rrf_score, reverse = True): a stable sort, entries of
\* equal score keep their order
RECURSIVE sorted_reverse(_)
sorted_reverse(s) ==
    IF s = <<>> THEN <<>>
    ELSE LET r == sorted_reverse(SubSeq(s, 1, Len(s) - 1))
             x == s[Len(s)]
             p == Cardinality({i \in 1..Len(r) :
                                 score_ge(r[i].rrf_score, x.rrf_score)})
         IN  SubSeq(r, 1, p) \o <<x>> \o SubSeq(r, p + 1, Len(r))

\* reciprocal_rank_fusion(results): the ranked entries of doc_scores
reciprocal_rank_fusion(results) == sorted_reverse(doc_scores(rrf_visits(results)))

\* the contents a chunk of the store can have, as the pipeline writes them
\* (no leading whitespace)
ContentNames ==
    {"a_x", "a_y", "b_x", "long", "mid", "short", "short_", "t", "u", "v"}

\* 200 times "a" and an "x"
Text_a_x == Fill("a", HASH_PREFIX) \o <<"x">>
\* 200 times "a" and a "y": the first 200 characters of a_x
Text_a_y == Fill("a", HASH_PREFIX) \o <<"y">>
\* differs from a_x in its 200th character only
Text_b_x == Fill("a", HASH_PREFIX - 1) \o <<"b", "x">>
\* fills most of the context
Text_long == Fill("l", MAX_CONTEXT_LENGTH - HASH_PREFIX - 100)
\* the first 200 characters of a_x, and too long for what long leaves
Text_mid == Fill("a", HASH_PREFIX) \o Fill("m", HASH_PREFIX + 100)
\* shorter than the hashed prefix
Text_short == Fill("s", 20)
\* short with a space after it
Text_short_ == Fill("s", 20) \o <<" ">>
\* three more short contents
Text_t == Fill("t", 30)
Text_u == Fill("u", 40)
Text_v == Fill("v", 50)

ContentText(name) ==
    CASE name = "a_x" -> Text_a_x
      [] name = "a_y" -> Text_a_y
      [] name = "b_x" -> Text_b_x
      [] name = "long" -> Text_long
      [] name = "mid" -> Text_mid
      [] name = "short" -> Text_short
      [] name = "short_" -> Text_short_
      [] name = "t" -> Text_t
      [] name = "u" -> Text_u
      [] name = "v" -> Text_v

\* payload.get("content", "").strip() for every content
Contents == [name \in ContentNames |-> strip(ContentText(name))]

\* the payloads of the store: the content of every chunk
Payloads ==
    {p \in [DocIds -> ContentNames] :
        /\ p[1] \in {"a_x", "long", "short"}
        /\ p[2] \in {"a_y", "mid", "short_"}
        /\ \A d \in DocIds : d > 2 => p[d] \in {"a_x", "b_x"}}

\* f"[ {payload.get('doc_title', 'Tài liệu')}]" of a chunk without title
HEADER == <<"[", " ", "T", "à", "i", " ", "l", "i", "ệ", "u", "]">>

\* a format_context that never skips a point
is_duplicate_Never(content_hash, seen_content) == FALSE

\* content_hash in seen_content
is_duplicate(content_hash, seen_content) == content_hash \in seen_content

\* format_context, one pass of the loop for a point with this stripped
\* content; an entry of contexts is kept as the id of its point, the length
\* of the content shown and whether the content was cut
format_point(acc, id, content) ==
    LET content_hash == Prefix(content, HASH_PREFIX)
        seen == acc.seen_content \cup {content_hash}
        over == acc.total_length + Len(content) > MAX_CONTEXT_LENGTH
        space == MAX_CONTEXT_LENGTH - acc.total_length
        shown == IF over THEN space + 3 ELSE Len(content)
        formatted == Len(HEADER) + 1 + shown
    IN  IF acc.stopped THEN acc
        ELSE IF is_duplicate(content_hash, acc.seen_content) THEN acc
        ELSE IF over /\ space < MIN_REMAINING
        THEN [acc EXCEPT !.seen_content = seen, !.stopped = TRUE]
        ELSE [contexts |-> Append(acc.contexts,
                                  [id |-> id, shown |-> shown, cut |-> over]),
              seen_content |-> seen,
              total_length |-> acc.total_length + formatted,
              stopped |-> acc.total_length + formatted >= MAX_CONTEXT_LENGTH]

RECURSIVE format_loop(_, _, _)
format_loop(acc, points, payloads) ==
    IF points = <<>> THEN acc
    ELSE format_loop(format_point(acc, points[1].id,
                                  Contents[payloads[points[1].id]]),
                     SubSeq(points, 2, Len(points)), payloads)

\* format_context(points): the entries of contexts
format_context(points, payloads) ==
    format_loop([contexts |-> <<>>, seen_content |-> {}, total_length |-> 0,
                 stopped |-> FALSE], points, payloads).contexts

\* the content of an entry of contexts as it stands in the context
entry_content(e, payloads) ==
    LET content == Contents[payloads[e.id]]
    IN  IF e.cut THEN Prefix(content, e.shown - 3) \o <<".", ".", ".">>
        ELSE content

\* len(context): the entries joined by "\n\n---\n\n"
context_length(contexts) ==
    IF contexts = <<>> THEN 0
    ELSE LET RECURSIVE total(_)
             total(i) == IF i = 0 THEN 0
                         ELSE total(i - 1) + Len(HEADER) + 1 + contexts[i].shown
         IN  total(Len(contexts)) + 7 * (Len(contexts) - 1)

\* an advanced_rag_search that hands every fused point to format_context
top_k_All(fused_results) == fused_results

\* final_results = fused_results[:FINAL_TOP_K]
top_k(fused_results) == Prefix(fused_results, FINAL_TOP_K)

\* ------------------------------------------------------ rag, answer letter

Digits == {"0", "1", "2", "3", "4", "5", "6", "7", "8", "9"}

\* \w of a str pattern: letters, digits and the underscore
IsWord(c) == c \in Range(UPPERCASE) \cup Range(LOWERCASE) \cup Digits \cup {"_"}

\* re.search(r'\b([A-Z])\b', t): the first letter A-Z of t that has no word
\* character next to it, or "none"
search_letter(t) ==
    LET alone == {i \in 1..Len(t) :
                    /\ t[i] \in LettersAZ
                    /\ i > 1 => ~IsWord(t[i - 1])
                    /\ i < Len(t) => ~IsWord(t[i + 1])}
    IN  IF alone = {} THEN "none"
        ELSE t[CHOOSE i \in alone : \A j \in alone : i <= j]

\* rag_solver_node, the letter it takes from the response
rag_letter(response_text) == search_letter(upper(strip(response_text)))

\* the texts the answer model is seen to give
AnswerTexts == {
    <<>>,
    <<"B">>,
    <<"C", ".", " ", "4", "2">>,
    <<"A", "n", "s", "w", "e", "r", ":", " ", "B">>,
    <<"t", "h", "e", " ", "a", "n", "s", "w", "e", "r", " ", "i", "s", " ",
      "b">>,
    <<"B", "e", "c", "a", "u", "s", "e">>,
    <<" ", "C">>,
    <<"4", "2">>}

\* the lists of n query texts: the text of a query is a new one or that of
\* an earlier query of the list
QueryTexts(n) ==
    {t \in [1..n -> 1..n] :
        \A i \in 1..n : t[i] = i \/ \E j \in 1..(i - 1) : t[i] = t[j] /\ t[j] = j}

\* the locals of rag_solver_node before the node runs
RagIdle ==
    [step |-> "idle", qdrant |-> FALSE, queries |-> 0, texts |-> <<>>,
     query |-> 0,
     all_results |-> <<>>, below |-> {}, ranked_docs |-> <<>>, final_results |-> <<>>,
     payloads |-> [d \in DocIds |-> "short"], contexts |-> <<>>,
     called |-> FALSE, raised |-> FALSE, response |-> <<>>, answer |-> ""]

\* the strategy is not followed
RagOff == [RagIdle EXCEPT !.step = "off"]

\* the embedding run is not followed
EmbOff == [step |-> "off"]

\* no call of the client is followed
HttpOff == [step |-> "off"]

\* ------------------------------------------------------------------ driver

\* a driver that does not read the log back on start
load_processed_qids_Unread(l) == {}

\* load_processed_qids: the set of qids of the records of the log
load_processed_qids(l) == {l[i].qid : i \in 1..Len(l)}

\* a driver that does not filter the input by processed_qids
remaining_data_Unfiltered(its, done) == its

\* remaining_data: the items whose qid is not in processed_qids, in order
remaining_data(its, done) == SelectSeq(its, LAMBDA q : q \notin done)

\* the {qid, answer} rows consolidation collects, one per record, in log order
Results(l) == [i \in 1..Len(l) |-> [qid |-> l[i].qid, answer |-> l[i].answer]]

\* the orders in which n rows may be arranged
Perms(n) == {p \in [1..n -> 1..n] : \A i, j \in 1..n : i # j => p[i] # p[j]}

\* the arrangements of the rows that are ordered by qid
SortedOrders(rows) ==
    {[i \in 1..Len(rows) |-> rows[p[i]]] : p \in
        {q \in Perms(Len(rows)) :
            \A i, j \in 1..Len(rows) : i < j => rows[q[i]].qid <= rows[q[j]].qid}}

\* df.sort_values(by='qid'): the rows ordered by qid.  The default sort is
\* not stable but it is a function of the rows: the same rows always come out
\* in the same order, and which of the ordered arrangements that is, for rows
\* of equal qid, is left open
sort_values(rows) == CHOOSE r \in SortedOrders(rows) : TRUE

\* a consolidation that opens the CSV for appending instead of writing it anew
consolidate_log_to_csv_Appending(l, o) ==
    IF Results(l) # <<>>
    THEN [exists |-> TRUE, rows |-> o.rows \o sort_values(Results(l))]
    ELSE o

\* consolidate_log_to_csv: the file the call leaves at csv_path; nothing is
\* written when the log holds no record
consolidate_log_to_csv(l, o) ==
    IF Results(l) # <<>>
    THEN [exists |-> TRUE, rows |-> sort_values(Results(l))]
    ELSE o

\* a loop that never looks for STOP_AUTO
StopRequested_Never == FALSE

\* os.path.exists("STOP_AUTO") at the head of the loop
StopRequested == stop

\* the record main appends after app.invoke returned final_state
SuccessRecord(q, final_state) ==
    [qid |-> q, answer |-> final_state.answer, category |-> final_state.category]

\* a fallback record that leaves the answer empty
FallbackRecord_NoAnswer(q) ==
    [qid |-> q, answer |-> "", category |-> FALLBACK_CATEGORY]

\* the record main appends when app.invoke raised a generic exception
FallbackRecord(q) ==
    [qid |-> q, answer |-> FALLBACK_ANSWER, category |-> FALLBACK_CATEGORY]

\* what is kept of a processing attempt that ended as k
Attempt(k, r) == [kind |-> k, rl |-> r.rl, fail |-> r.fail]

NoAttempt == [kind |-> "none", rl |-> FALSE, fail |-> FALSE]

TypeOK ==
    /\ items \in Inputs
    /\ \A i \in 1..Len(log) : log[i].qid \in QIds
    /\ out.exists \in BOOLEAN
    /\ stop \in BOOLEAN
    /\ pc \in {"idle", "loop", "invoke", "wait", "consolidate"}
    /\ auto \in BOOLEAN
    /\ processed \subseteq QIds
    /\ idx \in 0..Len(remaining)
    /\ last.kind \in {"none", "ok", "ratelimit", "error", "exit", "interrupt"}
    /\ exit \in {"none", "nothing", "done", "stop", "ratelimit", "interrupt",
                 "killed"}

\* --------------------------------------------------------------------- Init

\* no invocation of the graph is followed
GraphOff ==
    /\ response = EmptyResponse
    /\ choices = <<>>
    /\ node = "off"
    /\ state = initial_state(0, 0)
    /\ ran = <<>>
    /\ math = MathIdle
    /\ python_executor = NewExecutor
    /\ defined = {}

\* none of the functions followed on their own is
PipeOff ==
    /\ rag = RagOff
    /\ emb = EmbOff
    /\ http = HttpOff

\* a fresh output directory: no log, no submission, no stop file
Init ==
    /\ items \in Inputs
    /\ log = <<>>
    /\ out = [exists |-> FALSE, rows |-> <<>>]
    /\ stop = FALSE
    /\ pc = "idle"
    /\ auto = FALSE
    /\ processed = {}
    /\ remaining = <<>>
    /\ idx = 0
    /\ logStart = 0
    /\ last = NoAttempt
    /\ exit = "none"
    /\ GraphOff
    /\ PipeOff

\* ------------------------------------------------------------------ actions

\* the process of main ends: its locals are gone, the files stay
ProcessEnds ==
    /\ pc' = "idle"
    /\ auto' = FALSE
    /\ processed' = {}
    /\ remaining' = <<>>
    /\ logStart' = 0
    /\ idx' = 0

\* main up to the loop: resume from the log, filter the input, and return at
\* once (after consolidating) when nothing remains
StartRun(a) ==
    /\ pc = "idle"
    /\ last' = NoAttempt
    /\ LET processed_qids == load_processed_qids(log)
           remaining_data_ == remaining_data(items, processed_qids)
       IN  IF remaining_data_ = <<>>
           THEN /\ out' = consolidate_log_to_csv(log, out)
                /\ exit' = "nothing"
                /\ ProcessEnds
           ELSE /\ out' = out
                /\ exit' = "none"
                /\ pc' = "loop"
                /\ auto' = a
                /\ processed' = processed_qids
                /\ remaining' = remaining_data_
                /\ logStart' = Len(log)
                /\ idx' = 0
    /\ UNCHANGED <<graphVars, pipeVars>>
    /\ UNCHANGED <<items, log, stop>>

\* the head of the while loop: the loop condition, the STOP_AUTO check, and
\* the start of app.invoke on the item at idx
LoopTop ==
    /\ pc = "loop"
    /\ IF idx >= Len(remaining)
       THEN /\ pc' = "consolidate"
            /\ exit' = "done"
            /\ last' = NoAttempt
       ELSE IF StopRequested
            THEN /\ pc' = "consolidate"
                 /\ exit' = "stop"
                 /\ last' = NoAttempt
            ELSE /\ pc' = "invoke"
                 /\ exit' = exit
                 /\ last' = NoAttempt
    /\ UNCHANGED <<graphVars, pipeVars>>
    /\ UNCHANGED <<items, log, out, stop, runVars, idx>>

\* a driver that keeps the records of a run in memory and writes none of them
\* before the loop has ended
OnSuccess_Batched(r) ==
    /\ idx' = idx + 1
    /\ pc' = "loop"
    /\ last' = Attempt("ok", r)
    /\ UNCHANGED <<graphVars, pipeVars>>
    /\ UNCHANGED <<items, log, out, stop, runVars, exit>>

\* app.invoke returned: main appends the record and moves to the next item
OnSuccess(r) ==
    /\ log' = Append(log, SuccessRecord(CurQid, r))
    /\ idx' = idx + 1
    /\ pc' = "loop"
    /\ last' = Attempt("ok", r)
    /\ UNCHANGED <<graphVars, pipeVars>>
    /\ UNCHANGED <<items, out, stop, runVars, exit>>

\* app.invoke raised RateLimitException: auto sleeps and retries the same
\* item, manual leaves the loop; nothing is appended and idx is kept
OnRateLimit(r) ==
    /\ pc' = IF auto THEN "wait" ELSE "consolidate"
    /\ exit' = IF auto THEN exit ELSE "ratelimit"
    /\ last' = Attempt("ratelimit", r)
    /\ UNCHANGED <<graphVars, pipeVars>>
    /\ UNCHANGED <<items, log, out, stop, runVars, idx>>

\* a driver that ends the batch on a generic error, as it does on a manual
\* rate-limit halt, without a record for the item
OnError_Abort(r) ==
    /\ pc' = "consolidate"
    /\ exit' = "error"
    /\ last' = Attempt("error", r)
    /\ UNCHANGED <<graphVars, pipeVars>>
    /\ UNCHANGED <<items, log, out, stop, runVars, idx>>

\* app.invoke raised any other Exception: main appends the fallback record
\* and moves to the next item
OnError(r) ==
    /\ log' = Append(log, FallbackRecord(CurQid))
    /\ idx' = idx + 1
    /\ pc' = "loop"
    /\ last' = Attempt("error", r)
    /\ UNCHANGED <<graphVars, pipeVars>>
    /\ UNCHANGED <<items, out, stop, runVars, exit>>

\* SystemExit raised inside exec passes every handler of the solver and of
\* main: the process ends without consolidating
OnSystemExit(r) ==
    /\ exit' = "killed"
    /\ last' = Attempt("exit", r)
    /\ ProcessEnds
    /\ UNCHANGED <<graphVars, pipeVars>>
    /\ UNCHANGED <<items, log, out, stop>>

\* the body of the loop: app.invoke on the item at idx and the handler of main
\* for the way it ends
Invoke ==
    /\ pc = "invoke"
    /\ \E r \in app_invoke :
          CASE r.kind = "ok" -> OnSuccess(r)
            [] r.kind = "ratelimit" -> OnRateLimit(r)
            [] r.kind = "error" -> OnError(r)
            [] r.kind = "exit" -> OnSystemExit(r)

\* the end of time.sleep in auto mode: continue, back to the head of the loop
Resume ==
    /\ pc = "wait"
    /\ pc' = "loop"
    /\ UNCHANGED <<graphVars, pipeVars>>
    /\ UNCHANGED <<items, log, out, stop, runVars, idx, last, exit>>

\* KeyboardInterrupt anywhere inside the try block of main
Interrupt ==
    /\ pc \in {"loop", "invoke", "wait"}
    /\ pc' = "consolidate"
    /\ exit' = "interrupt"
    /\ last' = IF pc = "invoke" THEN Attempt("interrupt", last) ELSE NoAttempt
    /\ UNCHANGED <<graphVars, pipeVars>>
    /\ UNCHANGED <<items, log, out, stop, runVars, idx>>

\* main after the loop: consolidate the log, remove STOP_AUTO, return
Finish ==
    /\ pc = "consolidate"
    /\ out' = consolidate_log_to_csv(log, out)
    /\ stop' = FALSE
    /\ last' = NoAttempt
    /\ ProcessEnds
    /\ UNCHANGED <<graphVars, pipeVars>>
    /\ UNCHANGED <<items, log, exit>>

\* stop.py: create the STOP_AUTO file
stop_auto_run ==
    /\ ~stop
    /\ stop' = TRUE
    /\ UNCHANGED <<graphVars, pipeVars>>
    /\ UNCHANGED <<items, log, out, pc, runVars, idx, last, exit>>

Next ==
    \/ \E a \in BOOLEAN : StartRun(a)
    \/ LoopTop
    \/ Invoke
    \/ Resume
    \/ Interrupt
    \/ Finish
    \/ stop_auto_run

Spec == Init /\ [][Next]_vars

\* ------------------------------------------------------- the auto run, fair
\* Runs under --auto with no STOP_AUTO file and no Ctrl+C.  A run that has
\* started goes on: the calls of an invocation return, time.sleep ends, and
\* the service does not answer every attempt on an item with 429/401 for ever.
\* Nothing makes the operator start a run.

NextAuto ==
    \/ StartRun(TRUE)
    \/ LoopTop
    \/ Invoke
    \/ Resume
    \/ Finish

RunGoesOn == WF_vars(LoopTop \/ Invoke \/ Resume \/ Finish)

RateLimitEnds == SF_vars(Invoke /\ ~last'.rl)

SpecAuto == Init /\ [][NextAuto]_vars /\ RunGoesOn /\ RateLimitEnds

\* ------------------------------------------------- the graph, node by node
\* One app.invoke after another, each followed from the router through the
\* conditional edge to the strategy node, with the loop of math_solver_node
\* followed attempt by attempt.  The driver is left out of this specification.

DriverOff ==
    /\ items = <<>>
    /\ log = <<>>
    /\ out = [exists |-> FALSE, rows |-> <<>>]
    /\ stop = FALSE
    /\ pc = "idle"
    /\ auto = FALSE
    /\ processed = {}
    /\ remaining = <<>>
    /\ idx = 0
    /\ logStart = 0
    /\ last = NoAttempt
    /\ exit = "none"

InitGraph ==
    /\ DriverOff
    /\ PipeOff
    /\ response = EmptyResponse
    /\ choices = <<>>
    /\ node = "idle"
    /\ state = initial_state(0, 0)
    /\ ran = <<>>
    /\ math = MathIdle
    /\ python_executor = NewExecutor
    /\ defined = {}

\* a mapping whose math entry leads to the rag strategy
edge_MathToRag(category) ==
    CASE category \in {"math", "rag"} -> "rag_solver"
      [] category = "reading" -> "reading_solver"
      [] category = "toxic" -> "toxic_checker"
      [] OTHER -> "KeyError"

\* the target the conditional edge of the router gives for a category; the
\* lookup of a key that is not in the mapping raises
edge(category) ==
    CASE category = "math" -> "math_solver"
      [] category = "rag" -> "rag_solver"
      [] category = "reading" -> "reading_solver"
      [] category = "toxic" -> "toxic_checker"
      [] OTHER -> "KeyError"

\* app.invoke(initial_state) for an item: its qid and question, its choices,
\* and the response the classifier will give for it
GraphInvoke ==
    /\ node = "idle"
    /\ response' \in Responses
    /\ choices' \in ChoiceLists
    /\ \E qid \in QIds : state' = initial_state(qid, qid)
    /\ node' = "__start__"
    /\ UNCHANGED <<pipeVars, driverVars, ran, math, python_executor, defined>>

\* router_node: the classification call, the parsing of what it returned
\* ("" when the call failed) and the category and answer it sets
RouterNode ==
    /\ node = "__start__"
    /\ \E o \in CallOutcomes :
          LET r == IF o = "ok" THEN response ELSE EmptyResponse
              c == classify(r)
              s == router_node(state, o, category_of(c.q_type),
                               toxic_char(c))
          IN  /\ state' = s
              /\ response' = r
              /\ node' = IF s.kind = "ok" THEN "router" ELSE "raised"
    /\ ran' = <<"router">>
    /\ UNCHANGED <<pipeVars, driverVars, choices, math, python_executor, defined>>

\* the conditional edge after the router
ConditionalEdge ==
    /\ node = "router"
    /\ IF edge(state.category) = "KeyError"
       THEN /\ state' = Raise(state, "error")
            /\ node' = "raised"
       ELSE /\ state' = state
            /\ node' = edge(state.category)
    /\ UNCHANGED <<pipeVars, driverVars, response, choices, ran, math, python_executor,
                   defined>>

\* math_solver_node up to the loop: the code generation call
MathGenerate ==
    /\ node = "math_solver"
    /\ math.step = "idle"
    /\ ran' = Append(ran, "math_solver")
    /\ \E o \in CallOutcomes, code \in Snippets :
          LET gen == client_call(o)
              s1 == Called(state, o)
          IN  IF gen \notin {"text", "empty"}
              THEN /\ state' = Propagate(s1, gen)
                   /\ node' = "raised"
                   /\ math' = math
              ELSE /\ state' = s1
                   /\ node' = node
                   /\ math' = [math EXCEPT
                                 !.step = "execute",
                                 !.code = IF gen = "text" THEN code
                                          ELSE EmptyCode]
    /\ UNCHANGED <<pipeVars, driverVars, response, choices, python_executor, defined>>

\* one pass of the self-correction loop: the execution of the code, the check
\* of its output and, for a failed execution, the repair call or the final
\* error.  No snippet of Snippets both uses and defines a name, so the names
\* a snippet defines are defined whenever it is executed.
MathAttempt ==
    /\ node = "math_solver"
    /\ math.step = "execute"
    /\ LET r == run(python_executor, math.code)
           execution_result == or_no_output(r.result)
           error_msg == error_msg_of(execution_result)
           executed == [math EXCEPT !.executions = @ + 1,
                                    !.output = r.result,
                                    !.raised = r.raised,
                                    !.execution_result = execution_result]
           failed == [executed EXCEPT !.failures = @ + 1,
                                      !.error_msg = error_msg]
       IN  /\ python_executor' = r.executor
           /\ defined' = defined \cup math.code.defines
           /\ IF r.exit
              THEN /\ state' = Raise([state EXCEPT !.execs = @ + 1], "exit")
                   /\ node' = "raised"
                   /\ math' = [executed EXCEPT !.execution_result = <<>>]
              ELSE IF ~has_error(execution_result)
              THEN /\ state' = [state EXCEPT !.execs = @ + 1]
                   /\ node' = node
                   /\ math' = [executed EXCEPT !.step = "select"]
              ELSE IF retry_allowed(math.attempt)
              THEN /\ node' = node
                   /\ \E o \in CallOutcomes, fixed_code \in Snippets :
                         /\ state' = Called([state EXCEPT !.execs = @ + 1], o)
                         /\ math' = [failed EXCEPT
                               !.repairs = @ + 1,
                               !.attempt = @ + 1,
                               !.step = IF math.attempt + 1 > max_retries
                                        THEN "select" ELSE "execute",
                               !.code = IF o = "ok" /\ fixed_code # EmptyCode
                                        THEN fixed_code ELSE @]
              ELSE /\ state' = [state EXCEPT !.execs = @ + 1]
                   /\ node' = node
                   /\ math' = [failed EXCEPT
                                 !.execution_result = error_after(error_msg),
                                 !.step = "select"]
    /\ UNCHANGED <<pipeVars, driverVars, response, choices, ran>>

\* math_solver_node after the loop: the answer selection call, the answer
\* and the reasoning
MathSelect ==
    /\ node = "math_solver"
    /\ math.step = "select"
    /\ \E o \in CallOutcomes, l \in RespOrNone :
          LET res == client_call(o)
              s1 == Called(state, o)
          IN  IF res \notin {"text", "empty"}
              THEN /\ state' = Propagate(s1, res)
                   /\ node' = "raised"
                   /\ math' = math
              ELSE /\ state' = [s1 EXCEPT !.answer =
                                  IF res = "text" THEN Extract(l, MATH_DEFAULT)
                                  ELSE MATH_DEFAULT]
                   /\ node' = "END"
                   /\ math' = [math EXCEPT
                                 !.step = "done",
                                 !.reasoning =
                                     reasoning_of(math.execution_result)]
    /\ UNCHANGED <<pipeVars, driverVars, response, choices, ran, python_executor,
                   defined>>

RagNode ==
    /\ node = "rag_solver"
    /\ ran' = Append(ran, "rag_solver")
    /\ \E q \in BOOLEAN, e \in CallOutcomes, g \in CallOutcomes,
          l \in RespOrNone :
          state' = rag_solver_node(state, q, e, g, l)
    /\ node' = "END"
    /\ UNCHANGED <<pipeVars, driverVars, response, choices, math, python_executor,
                   defined>>

ReadingNode ==
    /\ node = "reading_solver"
    /\ ran' = Append(ran, "reading_solver")
    /\ \E g \in CallOutcomes, l \in RespOrNone :
          /\ state' = reading_solver_node(state, g, l)
          /\ node' = IF state'.kind = "ok" THEN "END" ELSE "raised"
    /\ UNCHANGED <<pipeVars, driverVars, response, choices, math, python_executor,
                   defined>>

ToxicNode ==
    /\ node = "toxic_checker"
    /\ ran' = Append(ran, "toxic_checker")
    /\ state' = toxic_checker_node(state, refusal_scan(choices))
    /\ node' = "END"
    /\ UNCHANGED <<pipeVars, driverVars, response, choices, math, python_executor,
                   defined>>

\* app.invoke is over and the driver goes on to the next item; after a
\* SystemExit it is a new process that does, with a new executor
GraphReturn ==
    /\ node \in {"END", "raised"}
    /\ response' = EmptyResponse
    /\ choices' = <<>>
    /\ node' = "idle"
    /\ state' = initial_state(0, 0)
    /\ ran' = <<>>
    /\ math' = MathIdle
    /\ python_executor' = IF state.kind = "exit" THEN NewExecutor
                          ELSE python_executor
    /\ defined' = IF state.kind = "exit" THEN {} ELSE defined
    /\ UNCHANGED <<pipeVars, driverVars>>

NextGraph ==
    \/ GraphInvoke
    \/ RouterNode
    \/ ConditionalEdge
    \/ MathGenerate
    \/ MathAttempt
    \/ MathSelect
    \/ RagNode
    \/ ReadingNode
    \/ ToxicNode
    \/ GraphReturn

SpecGraph == InitGraph /\ [][NextGraph]_vars

\* ------------------------------------------------- the rag strategy, alone
\* rag_solver_node followed call by call: the search of every query, the
\* fusion, the context and the answer.  search_multi_query is followed for
\* lists of up to NumQueries queries; advanced_rag_search hands it one.

RagOthersOff ==
    /\ DriverOff
    /\ GraphOff
    /\ emb = EmbOff
    /\ http = HttpOff

InitRag ==
    /\ RagOthersOff
    /\ rag = RagIdle

ragOthers == <<driverVars, graphVars, emb, http>>

\* search_multi_query up to its loop: get_qdrant() gives a client or None
RagStart ==
    /\ rag.step = "idle"
    /\ \E q \in BOOLEAN, n \in 1..NumQueries :
       \E texts \in QueryTexts(n) :
          rag' = [rag EXCEPT !.qdrant = q, !.queries = n, !.query = 1,
                             !.texts = texts,
                             !.step = IF q THEN "search" ELSE "searched"]
    /\ UNCHANGED ragOthers

\* one pass of the loop of search_multi_query: the embedding of the query
\* and the search; every exception, RateLimitException included, skips the
\* query.  below records the candidates the store held under the threshold
\* for the queries it was searched with.
SearchQuery ==
    /\ rag.step = "search"
    /\ \E e \in CallOutcomes, up \in BOOLEAN, sim \in [DocIds -> Scores] :
          \E results \in search(sim) :
             LET query_vector == get_embedding(e)
                 hits == [i \in 1..Len(results) |->
                            [point |-> results[i],
                             query |-> rag.texts[rag.query],
                             pos |-> rag.query]]
                 skipped == query_vector = "RateLimitException" \/ ~up
             IN  rag' = [rag EXCEPT
                     !.all_results = IF skipped THEN @ ELSE @ \o hits,
                     !.below = IF skipped THEN @
                               ELSE @ \cup {<<rag.query, d>> : d \in
                                      {c \in DocIds :
                                          sim[c] < MIN_SCORE_THRESHOLD}},
                     !.query = @ + 1,
                     !.step = IF rag.query = rag.queries THEN "searched"
                              ELSE "search"]
    /\ UNCHANGED ragOthers

\* advanced_rag_search after the search: "" without results, else the
\* fusion and its first FINAL_TOP_K points
Fuse ==
    /\ rag.step = "searched"
    /\ IF rag.all_results = <<>>
       THEN rag' = [rag EXCEPT !.step = "context"]
       ELSE LET ranked_docs == reciprocal_rank_fusion(rag.all_results)
                fused_results == [i \in 1..Len(ranked_docs) |->
                                    ranked_docs[i].point]
            IN  rag' = [rag EXCEPT
                    !.ranked_docs = ranked_docs,
                    !.final_results = top_k(fused_results),
                    !.step = "fused"]
    /\ UNCHANGED ragOthers

\* format_context(final_results), for the payloads the points came with
FormatContext ==
    /\ rag.step = "fused"
    /\ \E payloads \in Payloads :
          rag' = [rag EXCEPT
                    !.payloads = payloads,
                    !.contexts = format_context(rag.final_results, payloads),
                    !.step = "context"]
    /\ UNCHANGED ragOthers

\* rag_solver_node after the search: generate_rag_answer inside try/except
\* Exception, and the letter of the response
Generate ==
    /\ rag.step = "context"
    /\ \E g \in CallOutcomes, text \in AnswerTexts :
          LET res == client_call(g)
              response_text == IF res = "text" THEN text ELSE <<>>
              letter == rag_letter(response_text)
          IN  rag' = [rag EXCEPT
                    !.called = TRUE,
                    !.raised = res = "RateLimitException",
                    !.response = response_text,
                    !.answer = IF res = "RateLimitException"
                               THEN RAG_ERROR_ANSWER
                               ELSE Extract(letter, RAG_DEFAULT),
                    !.step = "done"]
    /\ UNCHANGED ragOthers

\* the node returns and is entered again for the next item
RagReturn ==
    /\ rag.step = "done"
    /\ rag' = RagIdle
    /\ UNCHANGED ragOthers

NextRag ==
    \/ RagStart
    \/ SearchQuery
    \/ Fuse
    \/ FormatContext
    \/ Generate
    \/ RagReturn

SpecRag == InitRag /\ [][NextRag]_vars

\* ------------------------------------------------------- the fusion, alone
\* reciprocal_rank_fusion on the results of lists of up to FusionQueries
\* queries, each with at most FusionHits hits; all_results is what
\* search_multi_query returns for them.

\* longest list of queries
FusionQueries == 3
\* most hits of one query
FusionHits == 2

\* the result lists a query can have: distinct chunks, best first
HitLists ==
    UNION {{a \in [1..n -> DocIds] : \A i, j \in 1..n : i # j => a[i] # a[j]} :
              n \in 0..FusionHits}

\* all_results for the queries 1..n with the texts and result lists given
RECURSIVE tagged_results(_, _, _)
tagged_results(texts, lists, n) ==
    IF n = 0 THEN <<>>
    ELSE tagged_results(texts, lists, n - 1)
         \o [i \in 1..Len(lists[n]) |->
                [point |-> [id |-> lists[n][i], score |-> 90],
                 query |-> texts[n], pos |-> n]]

InitFusion ==
    /\ DriverOff
    /\ GraphOff
    /\ emb = EmbOff
    /\ http = HttpOff
    /\ rag = [RagIdle EXCEPT !.step = "fusion"]

\* reciprocal_rank_fusion(all_results)
FusionCall ==
    /\ rag.step = "fusion"
    /\ \E n \in 1..FusionQueries :
          \E texts \in QueryTexts(n), lists \in [1..n -> HitLists] :
             LET all_results == tagged_results(texts, lists, n)
             IN  rag' = [rag EXCEPT
                           !.queries = n,
                           !.texts = texts,
                           !.all_results = all_results,
                           !.ranked_docs = reciprocal_rank_fusion(all_results),
                           !.step = "ranked"]
    /\ UNCHANGED ragOthers

\* the function has returned; it is called again
FusionReturn ==
    /\ rag.step = "ranked"
    /\ rag' = [RagIdle EXCEPT !.step = "fusion"]
    /\ UNCHANGED ragOthers

NextFusion ==
    \/ FusionCall
    \/ FusionReturn

SpecFusion == InitFusion /\ [][NextFusion]_vars

\* --------------------------------------------------- the context, alone
\* advanced_rag_search after the fusion, for fused lists of up to CtxDocs
\* points: the cut to FINAL_TOP_K and format_context.  The points are
\* numbered in fused order.

\* longest fused list
CtxDocs == 6

\* the contents the points of a fused list can have
CtxPayloads ==
    {p \in [1..CtxDocs -> ContentNames] :
        /\ p[1] \in {"long", "short", "a_x"}
        /\ p[2] \in {"mid", "a_y", "t"}
        /\ p[3] \in {"b_x", "short_", "u"}
        /\ p[4] \in {"v", "a_x"}
        /\ p[5] \in {"b_x", "mid"}
        /\ p[6] \in {"a_x", "mid"}}

\* the fused list of n points from one query
fused_points(n) ==
    [i \in 1..n |-> [point |-> [id |-> i, score |-> 90],
                     rrf_score |-> rrf_score(i - 1)]]

InitContext ==
    /\ DriverOff
    /\ GraphOff
    /\ emb = EmbOff
    /\ http = HttpOff
    /\ rag = [RagIdle EXCEPT !.step = "assemble"]

\* final_results = fused_results[:FINAL_TOP_K] and format_context of them
AssembleContext ==
    /\ rag.step = "assemble"
    /\ \E n \in 1..CtxDocs, payloads \in CtxPayloads :
          LET ranked_docs == fused_points(n)
              fused_results == [i \in 1..n |-> ranked_docs[i].point]
              final_results == top_k(fused_results)
          IN  rag' = [rag EXCEPT
                        !.ranked_docs = ranked_docs,
                        !.final_results = final_results,
                        !.payloads = payloads,
                        !.contexts = format_context(final_results, payloads),
                        !.step = "assembled"]
    /\ UNCHANGED ragOthers

\* the context is returned; the function is called again
ContextReturn ==
    /\ rag.step = "assembled"
    /\ rag' = [RagIdle EXCEPT !.step = "assemble"]
    /\ UNCHANGED ragOthers

NextContext ==
    \/ AssembleContext
    \/ ContextReturn

SpecContext == InitContext /\ [][NextContext]_vars

\* ------------------------------------------------- the client, call by call
\* One call of a method of VNPTClient: requests.post, _check_rate_limit, the
\* reading of the body and the except clauses of the method.  An exception is
\* [type, method, status]; RateLimitException carries the method name and the
\* status code of its message.

Methods ==
    {"classify_router", "generate_math_code", "select_math_answer",
     "generate_rag_answer", "generate_reading_answer", "get_embedding"}

\* status codes the service can answer with
StatusCodes == {200, 204, 304, 400, 401, 403, 429, 500, 503}

\* the body of a response: JSON with the path the method reads, JSON without
\* it, or no JSON at all
Bodies == {"content", "no_key", "not_json"}

\* requests.post raising instead of returning a response
Transport == {"Timeout", "ConnectionError"}

NoException == [type |-> "none", method |-> "", status |-> 0]

Exc(type) == [type |-> type, method |-> "", status |-> 0]

\* a check that takes 429 alone for the rate limit
rate_limited_Only429(status_code) == status_code = 429

\* response.status_code in [429, 401]
rate_limited(status_code) == status_code \in {429, 401}

\* response.raise_for_status() raises HTTPError for a 4xx or 5xx status
raise_for_status(status_code) == status_code >= 400 /\ status_code < 600

\* _check_rate_limit(response, method_name): the exception it raises, or
\* NoException when it returns
check_rate_limit(status_code, method_name) ==
    IF rate_limited(status_code)
    THEN [type |-> "RateLimitException", method |-> method_name,
          status |-> status_code]
    ELSE IF raise_for_status(status_code)
    THEN [type |-> "HTTPError", method |-> "", status |-> status_code]
    ELSE NoException

\* response.json()[...]: what the method returns for a body that has the path
json_value(method) == IF method = "get_embedding" THEN "vector" ELSE "text"

\* the exception of response.json()[...] for the other bodies
json_error(body) ==
    IF body = "no_key" THEN Exc("KeyError") ELSE Exc("JSONDecodeError")

\* what except Exception returns: "" or [0.0] * 1024
default_value(method) == IF method = "get_embedding" THEN "zeros" ELSE "empty"

NoResult == [kind |-> "none", value |-> "", exc |-> NoException]

\* the except clauses of a method: RateLimitException is re-raised, every
\* other Exception gives the default value
except_clauses(exc, method) ==
    IF exc.type = "RateLimitException"
    THEN [kind |-> "raised", value |-> "", exc |-> exc]
    ELSE [kind |-> "returned", value |-> default_value(method),
          exc |-> NoException]

HttpIdle ==
    [step |-> "idle", method |-> "", posted |-> "none", status |-> 0,
     body |-> "", exc |-> NoException, signal |-> NoException,
     result |-> NoResult]

ClientOthersOff ==
    /\ DriverOff
    /\ GraphOff
    /\ rag = RagOff
    /\ emb = EmbOff

InitClient ==
    /\ ClientOthersOff
    /\ http = HttpIdle

clientOthers == <<driverVars, graphVars, rag, emb>>

\* a caller calls one of the methods
ClientCall ==
    /\ http.step = "idle"
    /\ \E m \in Methods : http' = [http EXCEPT !.method = m, !.step = "post"]
    /\ UNCHANGED clientOthers

\* requests.post: a response of the service, or an exception of the transport
Post ==
    /\ http.step = "post"
    /\ \/ \E s \in StatusCodes, b \in Bodies :
             http' = [http EXCEPT !.posted = "response", !.status = s,
                                  !.body = b, !.step = "check"]
       \/ \E t \in Transport :
             http' = [http EXCEPT !.posted = t, !.exc = Exc(t),
                                  !.step = "except"]
    /\ UNCHANGED clientOthers

\* self._check_rate_limit(response, name)
CheckRateLimit ==
    /\ http.step = "check"
    /\ LET e == check_rate_limit(http.status, http.method)
       IN  IF e = NoException
           THEN http' = [http EXCEPT !.step = "json"]
           ELSE http' = [http EXCEPT
                            !.exc = e,
                            !.signal = IF e.type = "RateLimitException"
                                       THEN e ELSE NoException,
                            !.step = "except"]
    /\ UNCHANGED clientOthers

\* return response.json()[...]
Json ==
    /\ http.step = "json"
    /\ IF http.body = "content"
       THEN http' = [http EXCEPT
                        !.result = [kind |-> "returned",
                                    value |-> json_value(http.method),
                                    exc |-> NoException],
                        !.step = "done"]
       ELSE http' = [http EXCEPT !.exc = json_error(http.body),
                                 !.step = "except"]
    /\ UNCHANGED clientOthers

\* except RateLimitException: raise / except Exception: return the default
Except ==
    /\ http.step = "except"
    /\ http' = [http EXCEPT !.result = except_clauses(http.exc, http.method),
                            !.step = "done"]
    /\ UNCHANGED clientOthers

\* the call is over
ClientReturn ==
    /\ http.step = "done"
    /\ http' = HttpIdle
    /\ UNCHANGED clientOthers

NextClient ==
    \/ ClientCall
    \/ Post
    \/ CheckRateLimit
    \/ Json
    \/ Except
    \/ ClientReturn

SpecClient == InitClient /\ [][NextClient]_vars

\* --------------------------------------------- the embedding run, step by step
\* main() of the embedder over the chunks of chunks.json, run after run.  What
\* outlives a run is the checkpoint file and the collection of the store; the
\* checkpoint in memory, the batch and the position of the loop do not.  calls
\* counts, for each chunk id, the embedding calls the service answered with a
\* vector.

\* number of chunks in chunks.json, with distinct chunk ids
NumChunks == 3
\* number of times the pipeline is started
MaxRuns == 3
\* BATCH_SIZE, 50 in the source, in proportion to NumChunks
BATCH_SIZE == 2
\* max_retries of embed_with_retry
embed_max_retries == 10

ChunkIds == 1..NumChunks

\* the chunks in the order of the file
chunks_json == [i \in 1..NumChunks |-> i]

NoFile == [exists |-> FALSE, embedded_ids |-> {}, total_embedded |-> 0]

\* load_checkpoint(): the content of the file, or an empty checkpoint
load_checkpoint(file) ==
    IF file.exists
    THEN [embedded_ids |-> file.embedded_ids,
          total_embedded |-> file.total_embedded]
    ELSE [embedded_ids |-> {}, total_embedded |-> 0]

\* save_checkpoint(checkpoint): the file after the write
save_checkpoint(embedded_ids, total_embedded) ==
    [exists |-> TRUE, embedded_ids |-> embedded_ids,
     total_embedded |-> total_embedded]

\* remaining = [c for c in chunks if c["chunk_id"] not in embedded_ids]
remaining_chunks(embedded_ids) ==
    SelectSeq(chunks_json, LAMBDA c : c \notin embedded_ids)

NoCalls == [c \in ChunkIds |-> 0]

\* the memory of a process that is not running
EmbMemory ==
    [embedded_ids |-> {}, total_embedded |-> 0, remaining |-> <<>>,
     idx |-> 0, points_batch |-> <<>>, attempt |-> 0]

\* before the first run: no checkpoint file, an empty collection.  short
\* holds the chunks whose content is shorter than 20 characters.
EmbIdle(short) ==
    [step |-> "idle", short |-> short, file |-> NoFile, store |-> {},
     calls |-> NoCalls, runs |-> 0, mem |-> EmbMemory]

EmbedOthersOff ==
    /\ DriverOff
    /\ GraphOff
    /\ rag = RagOff
    /\ http = HttpOff

InitEmbed ==
    /\ EmbedOthersOff
    /\ \E short \in SUBSET ChunkIds : emb = EmbIdle(short)

embedOthers == <<driverVars, graphVars, rag, http>>

\* the position after the chunk at idx: the next pass of the loop
next_chunk(mem) == [mem EXCEPT !.idx = mem.idx + 1, !.attempt = 0]

\* main() up to the loop of embed_chunks: the checkpoint is read, remaining is
\* computed, and the function returns when nothing remains
EmbedMain ==
    /\ emb.step \in {"idle", "stopped", "finished"}
    /\ emb.runs < MaxRuns
    /\ LET cp == load_checkpoint(emb.file)
           rem == remaining_chunks(cp.embedded_ids)
       IN  emb' = [emb EXCEPT
                      !.runs = emb.runs + 1,
                      !.mem = [embedded_ids |-> cp.embedded_ids,
                               total_embedded |-> cp.total_embedded,
                               remaining |-> rem, idx |-> 1,
                               points_batch |-> <<>>, attempt |-> 0],
                      !.step = IF rem = <<>> THEN "finished" ELSE "loop"]
    /\ UNCHANGED embedOthers

\* the head of one pass of the loop: a chunk with too short a content is
\* passed over; after the last chunk the loop is left
LoopHead ==
    /\ emb.step = "loop"
    /\ IF emb.mem.idx > Len(emb.mem.remaining)
       THEN emb' = [emb EXCEPT !.step = "final"]
       ELSE IF emb.mem.remaining[emb.mem.idx] \in emb.short
       THEN emb' = [emb EXCEPT !.mem = next_chunk(emb.mem)]
       ELSE emb' = [emb EXCEPT !.step = "embed"]
    /\ UNCHANGED embedOthers

\* one attempt of embed_with_retry, and what the loop does with its result: a
\* vector (the zero vector of a failed call included) is added to the batch
\* and the chunk id to embedded_ids; a rate-limit signal is waited out and the
\* call repeated, max_retries times at most, after which the chunk is passed
\* over
EmbedAttempt ==
    /\ emb.step = "embed"
    /\ \E o \in CallOutcomes :
          LET chunk_id == emb.mem.remaining[emb.mem.idx]
              embedding == get_embedding(o)
          IN  IF embedding = "RateLimitException"
              THEN IF emb.mem.attempt + 1 < embed_max_retries
                   THEN emb' = [emb EXCEPT !.mem.attempt = emb.mem.attempt + 1]
                   ELSE emb' = [emb EXCEPT !.mem = next_chunk(emb.mem),
                                           !.step = "loop"]
              ELSE LET batch == Append(emb.mem.points_batch, chunk_id)
                       m == [emb.mem EXCEPT
                                !.points_batch = batch,
                                !.embedded_ids = @ \cup {chunk_id},
                                !.total_embedded = @ + 1]
                   IN  emb' = [emb EXCEPT
                                  !.calls[chunk_id] =
                                      IF o = "ok" THEN @ + 1 ELSE @,
                                  !.mem = IF Len(batch) >= BATCH_SIZE
                                          THEN m ELSE next_chunk(m),
                                  !.step = IF Len(batch) >= BATCH_SIZE
                                           THEN "upsert" ELSE "loop"]
    /\ UNCHANGED embedOthers

\* qdrant.upsert of a full batch
UpsertBatch ==
    /\ emb.step = "upsert"
    /\ emb' = [emb EXCEPT !.store = @ \cup Range(emb.mem.points_batch),
                          !.step = "save"]
    /\ UNCHANGED embedOthers

\* save_checkpoint after the upsert of a full batch, and the batch emptied
SaveBatch ==
    /\ emb.step = "save"
    /\ emb' = [emb EXCEPT
                  !.file = save_checkpoint(emb.mem.embedded_ids,
                                           emb.mem.total_embedded),
                  !.mem = next_chunk([emb.mem EXCEPT !.points_batch = <<>>]),
                  !.step = "loop"]
    /\ UNCHANGED embedOthers

\* after the loop: the upsert of what is left in the batch
UpsertRest ==
    /\ emb.step = "final"
    /\ IF emb.mem.points_batch # <<>>
       THEN emb' = [emb EXCEPT !.store = @ \cup Range(emb.mem.points_batch),
                               !.step = "final_save"]
       ELSE emb' = [emb EXCEPT !.mem = EmbMemory, !.step = "finished"]
    /\ UNCHANGED embedOthers

\* save_checkpoint after the last upsert; the run is over
SaveRest ==
    /\ emb.step = "final_save"
    /\ emb' = [emb EXCEPT
                  !.file = save_checkpoint(emb.mem.embedded_ids,
                                           emb.mem.total_embedded),
                  !.mem = EmbMemory,
                  !.step = "finished"]
    /\ UNCHANGED embedOthers

\* the process ends in the middle of a run (it is killed, or an exception of
\* the store leaves main): the file and the collection stay as they are
Crash ==
    /\ emb.step \in {"loop", "embed", "upsert", "save", "final", "final_save"}
    /\ emb' = [emb EXCEPT !.mem = EmbMemory, !.step = "stopped"]
    /\ UNCHANGED embedOthers

NextEmbed ==
    \/ EmbedMain
    \/ LoopHead
    \/ EmbedAttempt
    \/ UpsertBatch
    \/ SaveBatch
    \/ UpsertRest
    \/ SaveRest
    \/ Crash

SpecEmbed == InitEmbed /\ [][NextEmbed]_vars

\* ---------------------------------------------------------------- claims

\* no two positions of the sequence hold the same qid
DistinctQids(its) == \A i, j \in 1..Len(its) : i # j => its[i] # its[j]

\* no two records of the log have the same qid
OneRecordPerQid(l) == \A i, j \in 1..Len(l) : i # j => l[i].qid # l[j].qid

\* every record of the log has its {qid, answer} row in the file
Consolidated(o, l) ==
    \A i \in 1..Len(l) : \E j \in 1..Len(o.rows) : o.rows[j] = Results(l)[i]

\* the table with one row per distinct qid of the log, ordered by qid, each
\* row with the answer of the last record of its qid
LastIndex(l, q) ==
    CHOOSE i \in 1..Len(l) :
        l[i].qid = q /\ \A j \in 1..Len(l) : l[j].qid = q => j <= i
OneRowPerQid(l) ==
    LET qs == {l[i].qid : i \in 1..Len(l)}
        order == CHOOSE f \in [1..Cardinality(qs) -> qs] :
                    \A i, j \in 1..Cardinality(qs) : i < j => f[i] < f[j]
    IN  [k \in 1..Cardinality(qs) |->
            [qid |-> order[k], answer |-> l[LastIndex(l, order[k])].answer]]

\* C1: for an input of pairwise distinct qids, whatever runs were made against
\* the log and however each ended, the log holds at most one record per qid.
C1_AtMostOneRecordPerQid == DistinctQids(items) => OneRecordPerQid(log)

\* C1 witness: a run that started from a log of an earlier run has appended.
C1_Witness ==
    /\ DistinctQids(items)
    /\ pc = "loop"
    /\ logStart > 0
    /\ Len(log) > logStart

\* C2: in a run, processed_qids is the set of qids of the log as read at the
\* start, no item to process has a qid of that set, and the records appended
\* in the run are, in order, one record for each of the items processed so far.
C2_OnlyUnloggedOncePerRun ==
    pc # "idle" =>
        /\ processed = {log[i].qid : i \in 1..logStart}
        /\ \A k \in 1..Len(remaining) : remaining[k] \notin processed
        /\ Len(log) = logStart + idx
        /\ \A k \in 1..idx : log[logStart + k].qid = remaining[k]
        /\ \A k \in 1..idx : log[logStart + k].qid \notin processed

\* C2 witness: a resumed run, whose log already held records, has processed
\* an item and appended its record.
C2_Witness == pc = "loop" /\ processed # {} /\ idx = 1 /\ Len(log) = logStart + 1

\* C3: a processing attempt in which a call was answered 429/401 does not end
\* with a record (a regular one or the fallback) appended for the item.
C3_NoRecordAfterRateLimit == last.kind \in {"ok", "error"} => ~last.rl

\* C4: under auto, from a rate-limit signal on the item at idx until the retry
\* starts, idx is kept and nothing is appended, and the signal puts the driver
\* into its wait.
C4_AutoRetriesSameItem ==
    [][(auto /\ last'.rl) =>
          /\ idx' = idx
          /\ log' = log
          /\ (pc = "invoke" => pc' = "wait")]_vars

\* C5: under manual, a rate-limit signal on the item at idx ends the loop in the
\* same step with nothing appended, and the run then ends with every record of
\* the log in the output.
C5_ManualHaltsAtOnce ==
    [][/\ (~auto /\ pc = "invoke" /\ last'.rl) =>
              (pc' = "consolidate" /\ exit' = "ratelimit" /\ log' = log)
       /\ (pc = "consolidate" /\ exit = "ratelimit" /\ pc' = "idle") =>
              Consolidated(out', log)]_vars

\* C6: when processing the item at idx raises an error other than the
\* rate-limit condition, exactly the record {qid, "C", "error"} is appended for
\* it and the loop goes on: idx moves to the next item, which is the one
\* processed next unless a stop signal or an interrupt ends the run.
C6_FallbackRecordAndContinue ==
    [][/\ (pc = "invoke" /\ last'.kind = "error") =>
              /\ log' = Append(log, [qid |-> remaining[idx + 1], answer |-> "C",
                                     category |-> "error"])
              /\ idx' = idx + 1
              /\ remaining' = remaining
              /\ pc' = "loop"
       /\ (pc = "loop" /\ last.kind = "error" /\ idx < Len(remaining) /\ ~stop
             /\ pc' # "loop" /\ exit' # "interrupt") =>
              (pc' = "invoke" /\ idx' = idx /\ remaining' = remaining)]_vars

\* C6 witness: after a fallback record the next item is in flight.
C6_Witness ==
    /\ pc = "invoke"
    /\ idx = 1
    /\ log[Len(log)] = [qid |-> remaining[1], answer |-> "C", category |-> "error"]

\* C7 as stated: a transport failure (no 429/401) during the processing of an
\* item makes its record the fallback record.
C7_TransportFailureGivesFallback ==
    (pc = "loop" /\ last.fail /\ ~last.rl) =>
        /\ last.kind = "error"
        /\ log[Len(log)].answer = "C"
        /\ log[Len(log)].category = "error"

\* C7 amended: a transport failure is absorbed by the client; the attempt never
\* ends as a generic error, and without a 429/401 (and without an interpreter
\* exit or an interrupt) it ends with a regular record of the item, carrying one
\* of the four categories, and the loop goes on without wait or halt.
C7_TransportFailureAbsorbed ==
    /\ last.fail => last.kind # "error"
    /\ (last.fail /\ ~last.rl /\ last.kind \notin {"exit", "interrupt"}) =>
          /\ last.kind = "ok"
          /\ pc = "loop"
          /\ idx > 0
          /\ Len(log) = logStart + idx
          /\ log[Len(log)].qid = remaining[idx]
          /\ log[Len(log)].category \in {"math", "rag", "reading", "toxic"}

\* C7 witness: an attempt with a transport failure ended with a regular record.
C7_Witness ==
    /\ pc = "loop"
    /\ last.fail
    /\ ~last.rl
    /\ last.kind = "ok"
    /\ log[Len(log)].category = "reading"
    /\ log[Len(log)].answer = "A"

\* C8 as stated: the stop signal is checked before every item, a run that
\* honors it consolidates and clears it, and an item in flight while the
\* signal is present ends with its record appended.
C8_StopHonoredAfterRecording ==
    [][/\ (pc = "loop" /\ stop) => pc' # "invoke"
       /\ (pc = "consolidate" /\ exit = "stop" /\ pc' = "idle") =>
              (~stop' /\ Consolidated(out', log))
       /\ (pc = "invoke" /\ stop /\ pc' # "invoke" /\ exit' # "interrupt") =>
              Len(log') = Len(log) + 1]_vars

\* C8 amended: the stop signal is checked before every item (also before the
\* retry after a wait) and honored only there, never while an item is in
\* flight; a run that honors it processes nothing more, consolidates and clears
\* it; an item in flight while the signal is present runs to its own end: a
\* record, or no record when it ends with a rate-limit signal, an interpreter
\* exit or an interrupt.
C8_StopHonoredAtItemBoundary ==
    [][/\ (pc = "loop" /\ stop) => pc' # "invoke"
       /\ (exit' = "stop" /\ exit # "stop") =>
              (pc = "loop" /\ stop /\ pc' = "consolidate" /\ log' = log)
       /\ (pc = "consolidate" /\ exit = "stop") =>
              (pc' \in {"consolidate", "idle"} /\ log' = log)
       /\ (pc = "consolidate" /\ exit = "stop" /\ pc' = "idle") =>
              (~stop' /\ Consolidated(out', log))
       /\ (pc = "invoke" /\ stop /\ pc' # "invoke") =>
              \/ Len(log') = Len(log) + 1
              \/ (log' = log /\ last'.kind \in {"ratelimit", "exit", "interrupt"})
      ]_vars

\* C8 witness: the signal is present at the head of the loop after the item
\* that was in flight ended with a rate-limit signal and the wait is over.
C8_Witness ==
    /\ pc = "loop"
    /\ stop
    /\ auto
    /\ last.kind = "ratelimit"
    /\ idx < Len(remaining)

\* C9: the file written by consolidation holds one row per distinct qid of
\* the log, ordered by qid, with the answer of the last record of the qid.
C9_OneRowPerQidLastWins ==
    [][(pc = "consolidate" /\ pc' = "idle") => out'.rows = OneRowPerQid(log)]_vars

\* C10: a run that entered the loop ends with the output file written and
\* holding every record of the log, also when the log is empty.
C10_OutputAlwaysWritten ==
    [][(pc = "consolidate" /\ pc' = "idle") =>
          (out'.exists /\ Consolidated(out', log))]_vars

\* every item of the input has a record in the log
AllLogged == \A i \in 1..Len(items) : \E j \in 1..Len(log) : log[j].qid = items[i]

\* C11: when every item of the input has a record in the log, a run processes
\* no item, appends nothing and leaves the output as the previous run, which
\* ended with its consolidation, produced it: for a log with records, the
\* rows of the log ordered by qid.
C11_RerunChangesNothing ==
    [][(pc = "idle" /\ AllLogged) =>
          /\ pc' = "idle"
          /\ log' = log
          /\ (exit \in {"nothing", "done", "stop", "ratelimit", "interrupt"}
                => out' = out)
          /\ (log # <<>> /\ stop' = stop) =>
                /\ out'.exists
                /\ Len(out'.rows) = Len(log)
                /\ Consolidated(out', log)
                /\ \A i, j \in 1..Len(out'.rows) :
                      i < j => out'.rows[i].qid <= out'.rows[j].qid]_vars

\* C11 witness: a run has found every item logged, after a run that
\* processed two items.
C11_Witness ==
    /\ pc = "idle"
    /\ exit = "nothing"
    /\ Len(items) = 2
    /\ Len(log) = 2
    /\ out.exists
    /\ Len(out.rows) = 2

\* C12: a record is appended only at the end of the processing of the item at
\* idx, for that item; when the processing of an item starts, the records of
\* all items processed before it in the run are in the log, in the order of
\* processing; and a process that dies leaves without a record only the item
\* that was in flight.
C12_PersistedAtOnceInOrder ==
    [][/\ (log' # log) =>
              /\ pc = "invoke"
              /\ Len(log') = Len(log) + 1
              /\ SubSeq(log', 1, Len(log)) = log
              /\ log'[Len(log')].qid = remaining[idx + 1]
              /\ idx' = idx + 1
       /\ (pc' = "invoke" /\ pc # "invoke") =>
              /\ Len(log) = logStart + idx
              /\ \A k \in 1..idx : log[logStart + k].qid = remaining[k]
       /\ (exit' = "killed" /\ pc = "invoke") =>
              /\ log' = log
              /\ Len(log) = logStart + idx
              /\ \A k \in 1..idx : log[logStart + k].qid = remaining[k]]_vars

\* C12 witness: the process died while the second item of a run was in
\* flight, and the record of the first is in the log.
C12_Witness ==
    /\ pc = "idle"
    /\ exit = "killed"
    /\ Len(items) = 2
    /\ Len(log) = 1
    /\ log[1].qid = items[1]
    /\ ~out.exists

\* C13: when the classifier reports a toxic item together with a refusal
\* choice whose value starts with an upper-case letter, the final answer of
\* the item is that letter and the Toxic strategy does not run
C13_ToxicLetterFromRouterIsFinal ==
    LET c == classify(response)
    IN  (/\ node = "END"
         /\ state.kind = "ok"
         /\ c.q_type = <<"T", "O", "X", "I", "C">>
         /\ c.toxic_detected.truthy
         /\ match_letter(c.toxic_detected.str) # "none")
        => /\ state.answer = match_letter(c.toxic_detected.str)
           /\ \A i \in 1..Len(ran) : ran[i] # "toxic_checker"

\* router_node has returned for the item the graph is at
RouterReturned ==
    /\ node \notin {"off", "idle", "__start__"}
    /\ ~(node = "raised" /\ ran = <<"router">> /\ state.kind = "ratelimit")

\* the response holds a JSON object whose type is a string that is, in any
\* letter case, none of math, rag, reading and toxic
UnknownType(r) ==
    LET result == IF json_match(r.text) THEN r.loads_match ELSE r.loads_whole
    IN  /\ result.kind = "dict"
        /\ result.type.is = "str"
        /\ category_of(result.type.str) \notin {"math", "rag", "reading", "toxic"}

\* C14: an item whose classification is a JSON object with a type outside
\* math, rag, reading and toxic is dispatched to the RAG strategy, and its
\* invocation does not end in the error that gives the fallback record
C14_UnknownTypeGoesToRag ==
    (RouterReturned /\ node \in {"END", "raised"} /\ UnknownType(response))
        => /\ ran = <<"router", "rag_solver">>
           /\ state.kind # "error"

\* no type can be taken from a JSON object of the response: json.loads,
\* result.get or .upper() raises and the except branch of the router runs
FallbackTaken(r) ==
    LET result == IF json_match(r.text) THEN r.loads_match ELSE r.loads_whole
    IN  ~(result.kind = "dict" /\ result.type.is \in {"absent", "str"})

\* C15, as stated: for every classifier response that is not valid JSON and
\* contains the substring MATH, the router sets category math
C15_InvalidJsonWithMathIsMath ==
    (/\ RouterReturned
     /\ response.loads_whole.kind = "invalid"
     /\ Contains(response.text, <<"M", "A", "T", "H">>))
        => state.category = "math"

\* C15, amended: for every classifier response from which no JSON object
\* with a string or missing type can be read, and which contains, in any
\* letter case, MATH but not TOXIC, the router sets category math
C15_FallbackWithMathAndNoToxicIsMath ==
    (/\ RouterReturned
     /\ FallbackTaken(response)
     /\ Contains(upper(response.text), <<"M", "A", "T", "H">>)
     /\ ~Contains(upper(response.text), <<"T", "O", "X", "I", "C">>))
        => state.category = "math"

\* a response that names both MATH and READING, in lower case or inside a
\* JSON text that cannot be used, has been classified as math
C15_Witness ==
    /\ node = "router"
    /\ FallbackTaken(response)
    /\ Contains(upper(response.text), <<"M", "A", "T", "H">>)
    /\ ~Contains(response.text, <<"M", "A", "T", "H">>)
       \/ Contains(response.text, <<"R", "E", "A", "D", "I", "N", "G">>)
       \/ response.loads_whole.kind # "invalid"
    /\ state.category = "math"

\* the response is of a kind the router cannot take a type from: empty, free
\* text, malformed JSON, JSON that is no object, a JSON object without a
\* type field or with a type that is not a string
NoUsableType(r) ==
    LET result == IF json_match(r.text) THEN r.loads_match ELSE r.loads_whole
    IN  ~(result.kind = "dict" /\ result.type.is = "str")

AllExecutionsFailed ==
    /\ node \in {"math_solver", "END"}
    /\ math.step \in {"select", "done"}
    /\ math.failures = math.executions

\* the reasoning of the checkpoint record of a math item
record_reasoning == Prefix(math.reasoning, REASONING_LIMIT)

\* C17, as stated: a snippet is executed at most 3 times per item; when every
\* execution fails it is executed exactly 3 times with 2 repairs requested,
\* the final execution result is the last error, and the reasoning of the
\* checkpoint record contains that last error
C17_LastErrorInReasoning ==
    /\ math.executions <= max_retries + 1
    /\ AllExecutionsFailed =>
          /\ math.executions = max_retries + 1
          /\ math.repairs = max_retries
          /\ Contains(math.execution_result, math.error_msg)
    /\ (AllExecutionsFailed /\ math.step = "done") =>
          Contains(record_reasoning, math.error_msg)

\* C17, amended: a snippet is executed at most 3 times per item; when every
\* execution fails it is executed exactly 3 times with 2 repairs requested,
\* the final execution result is "Error after 3 attempts: " followed by the
\* last error, and the reasoning of the checkpoint record is "Code executed.
\* Result: " followed by the first 100 characters of that result, so that it
\* contains the last error when the result has at most 100 characters
C17_LastErrorInReasoningWhenShort ==
    /\ math.executions <= max_retries + 1
    /\ AllExecutionsFailed =>
          /\ math.executions = max_retries + 1
          /\ math.repairs = max_retries
          /\ math.error_msg = error_msg_of(or_no_output(math.output))
          /\ math.execution_result = error_after(math.error_msg)
    /\ (AllExecutionsFailed /\ math.step = "done") =>
          /\ record_reasoning = reasoning_of(math.execution_result)
          /\ Len(math.execution_result) <= RESULT_LIMIT =>
                Contains(record_reasoning, math.error_msg)

\* three executions of an item failed and the record's reasoning holds the
\* whole of the last error
C17_Witness ==
    /\ node = "END"
    /\ math.step = "done"
    /\ math.failures = max_retries + 1
    /\ math.executions = max_retries + 1
    /\ Len(math.execution_result) <= RESULT_LIMIT
    /\ Contains(record_reasoning, math.error_msg)

\* C18: executing a generated snippet never ends the driver: whatever the
\* snippet does when it is run (here: asks the interpreter to exit), the
\* invocation of the item comes back to the driver, which records the item
\* and goes on with the batch
C18_SnippetNeverEndsDriver ==
    [][(pc = "invoke" /\ last'.kind = "exit") =>
          /\ Len(log') = Len(log) + 1
          /\ pc' # "idle"
          /\ exit' # "killed"]_vars

\* the text the loop checks after an execution names, in some letter case,
\* one of the error indicators
OutputNamesError(output) ==
    \E indicator \in error_indicators :
        Contains(lower(or_no_output(output)), lower(indicator))

\* the loop treats the execution just made as a failure: a repair is
\* requested and the next attempt follows, or, after the last attempt, the
\* error becomes the final execution result
HandledAsFailure ==
    /\ math'.failures = math.failures + 1
    /\ math'.error_msg = error_msg_of(or_no_output(math'.output))
    /\ IF math.attempt < max_retries
       THEN /\ math'.repairs = math.repairs + 1
            /\ math'.attempt = math.attempt + 1
            /\ math'.step = "execute"
       ELSE /\ math'.repairs = math.repairs
            /\ math'.step = "select"
            /\ math'.execution_result = error_after(math'.error_msg)

\* C19: an execution counts as failed whenever its captured output names, in
\* any letter case, one of the error indicators, also when the snippet raised
\* no exception; it is followed by the same repair-and-retry step as an
\* execution that raised, and an execution that did neither is a success
C19_PrintedErrorIsFailure ==
    [][(/\ node = "math_solver" /\ node' = "math_solver"
        /\ math'.executions = math.executions + 1) =>
          IF math'.raised \/ OutputNamesError(math'.output)
          THEN HandledAsFailure
          ELSE /\ math'.failures = math.failures
               /\ math'.repairs = math.repairs
               /\ math'.step = "select"
               /\ math'.execution_result = or_no_output(math'.output)]_vars

\* a snippet that raised nothing printed a text naming an error in lower
\* case only, and a repair was requested for it
C19_Witness ==
    /\ node = "math_solver"
    /\ math.step = "execute"
    /\ math.repairs > 0
    /\ math.failures = math.executions
    /\ ~math.raised
    /\ OutputNamesError(math.output)
    /\ \A indicator \in error_indicators : ~Contains(math.output, indicator)

\* C20: each execution starts from an empty namespace.  A snippet that reads
\* a name it does not define itself ends in the NameError for that name,
\* whatever names the snippets of earlier attempts and earlier items defined,
\* and the executor object keeps nothing from one execution to the next
C20_FreshNamespacePerExecution ==
    [][/\ python_executor' = NewExecutor
       /\ (/\ node = "math_solver"
           /\ math'.executions = math.executions + 1
           /\ math.code.uses # {}) =>
             /\ math'.raised
             /\ math'.output = format_exc(NameErrorLine)
             /\ node' = "math_solver"]_vars

\* the first snippet of an item read a name that a snippet of an earlier item
\* had defined, and got the NameError
C20_Witness ==
    /\ node = "math_solver"
    /\ math.executions = 1
    /\ math.code.uses = {"x"}
    /\ "x" \in defined
    /\ math.raised
    /\ math.output = format_exc(NameErrorLine)

\* the rank (from 0) of result i in the ranking of its query
rank_of(results, i) ==
    Cardinality({j \in 1..(i - 1) : results[j].query = results[i].query})

\* the sum, over the results 1..n that are document d, of
\* 1 / (60 + rank + 1), as a fraction
RECURSIVE fusion_sum(_, _, _)
fusion_sum(results, d, n) ==
    IF n = 0 THEN [num |-> 0, den |-> 1]
    ELSE LET before == fusion_sum(results, d, n - 1)
             den == 60 + rank_of(results, n) + 1
         IN  IF results[n].point.id = d
             THEN [num |-> before.num * den + before.den,
                   den |-> before.den * den]
             ELSE before

\* C21: reciprocal rank fusion gives every retrieved document, once, the sum
\* over the queries that retrieved it of 1 / (60 + rank + 1), with rank 0 for
\* the best hit of a query, and orders the documents by that sum, largest
\* first
C21_FusionSumsReciprocalRanks ==
    rag.ranked_docs # <<>> =>
        LET docs == rag.ranked_docs
            results == rag.all_results
        IN  /\ {docs[i].point.id : i \in 1..Len(docs)}
                  = {results[i].point.id : i \in 1..Len(results)}
            /\ \A i, j \in 1..Len(docs) :
                  i # j => docs[i].point.id # docs[j].point.id
            /\ \A i \in 1..Len(docs) :
                  LET sum == fusion_sum(results, docs[i].point.id,
                                        Len(results))
                  IN  docs[i].rrf_score.num * sum.den
                         = sum.num * docs[i].rrf_score.den
            /\ \A i, j \in 1..Len(docs) :
                  i < j => docs[i].rrf_score.num * docs[j].rrf_score.den
                              >= docs[j].rrf_score.num * docs[i].rrf_score.den
            /\ \A i \in 1..Len(rag.final_results) :
                  rag.final_results[i] = docs[i].point

\* a document at rank 0 for one query and at rank 2 for another has the score
\* 1/61 + 1/63 and stands before a document found at rank 0 by one query only
C21_Witness ==
    /\ rag.step = "fused"
    /\ Len(rag.all_results) = 4
    /\ rag.all_results[1].point.id = rag.all_results[4].point.id
    /\ rag.all_results[1].query # rag.all_results[4].query
    /\ rag.ranked_docs[1].point.id = rag.all_results[1].point.id
    /\ rag.ranked_docs[1].rrf_score.num * (61 * 63)
          = (61 + 63) * rag.ranked_docs[1].rrf_score.den
    /\ rag.ranked_docs[2].point.id = rag.all_results[2].point.id
    /\ rag.ranked_docs[2].rrf_score.num * 61 = rag.ranked_docs[2].rrf_score.den

\* the ids of the points of a sequence of points
ids(points) == {points[i].id : i \in 1..Len(points)}

\* C22: a candidate whose similarity is below the minimum threshold is in
\* none of the per-query results, and the fused ranking and the context hold
\* only documents of those results, for any number of queries and any store
C22_BelowThresholdNeverAppears ==
    LET results == rag.all_results
        fused == [i \in 1..Len(rag.ranked_docs) |-> rag.ranked_docs[i].point]
    IN  /\ \A i \in 1..Len(results) :
              /\ results[i].point.score >= MIN_SCORE_THRESHOLD
              /\ <<results[i].pos, results[i].point.id>> \notin rag.below
        /\ \A i \in 1..Len(fused) : fused[i].score >= MIN_SCORE_THRESHOLD
        /\ ids(fused) \subseteq {results[i].point.id : i \in 1..Len(results)}
        /\ ids(rag.final_results) \subseteq ids(fused)
        /\ ids(rag.contexts) \subseteq ids(rag.final_results)

\* a document that was below the threshold for every query of a search with
\* two queries is missing from a context that holds other documents
C22_Witness ==
    /\ rag.step = "context"
    /\ rag.queries = 2
    /\ rag.contexts # <<>>
    /\ \E d \in DocIds :
          /\ <<1, d>> \in rag.below
          /\ <<2, d>> \in rag.below
          /\ d \notin ids(rag.contexts)

\* the first 200 characters of the (stripped) content of a document
content_prefix(d) == Prefix(Contents[rag.payloads[d]], HASH_PREFIX)

\* C23: the assembled context never holds two entries whose contents have the
\* same first 200 characters, and the entry it holds for such a group of
\* candidates is the first of the group in ranked order
C23_OneEntryPerContentPrefix ==
    rag.contexts # <<>> =>
        LET entries == rag.contexts
            ranked == rag.final_results
        IN  /\ \A i, j \in 1..Len(entries) :
                  i # j =>
                     Prefix(entry_content(entries[i], rag.payloads), HASH_PREFIX)
                        # Prefix(entry_content(entries[j], rag.payloads),
                                 HASH_PREFIX)
            /\ \A i \in 1..Len(entries) :
                  \E r \in 1..Len(ranked) :
                     /\ ranked[r].id = entries[i].id
                     /\ \A q \in 1..(r - 1) :
                           content_prefix(ranked[q].id)
                              # content_prefix(entries[i].id)

\* two retrieved documents share their first 200 characters and differ after
\* them; the context holds the one ranked first, and another document
C23_Witness ==
    /\ rag.step = "context"
    /\ Len(rag.final_results) = 3
    /\ Len(rag.contexts) = 2
    /\ \E i, j \in 1..3 :
          /\ i < j
          /\ content_prefix(rag.final_results[i].id)
                = content_prefix(rag.final_results[j].id)
          /\ Contents[rag.payloads[rag.final_results[i].id]]
                # Contents[rag.payloads[rag.final_results[j].id]]
          /\ rag.final_results[i].id \in ids(rag.contexts)
          /\ rag.final_results[j].id \notin ids(rag.contexts)

\* C24: when the retrieval yields no candidate (no client for the store, a
\* failed search or embedding, nothing above the threshold) the strategy
\* still calls the answer generation, with an empty context, and stores an
\* answer letter
C24_EmptyRetrievalStillAnswers ==
    /\ (rag.all_results = <<>> /\ rag.step = "context") =>
          /\ rag.ranked_docs = <<>>
          /\ rag.contexts = <<>>
          /\ context_length(rag.contexts) = 0
    /\ (rag.all_results = <<>> /\ rag.step = "done") =>
          /\ rag.contexts = <<>>
          /\ rag.called
          /\ rag.answer \in LettersAZ

\* the store was searched and held nothing above the threshold; the answer
\* call was made and its letter stored
C24_Witness ==
    /\ rag.step = "done"
    /\ rag.qdrant
    /\ rag.below # {}
    /\ rag.all_results = <<>>
    /\ rag.called
    /\ rag.answer = "C"

\* C26: the RAG strategy takes the answer letter from the response by the
\* rule of the last step of the Math strategy: it finds a letter exactly
\* when the response starts with an upper-case letter, and that letter is
\* the one it stores
C26_RagLetterRuleIsMathRule ==
    (rag.step = "done" /\ ~rag.raised) =>
        LET math_rule == match_letter(rag.response)
            rag_rule == rag_letter(rag.response)
        IN  /\ rag_rule # "none" <=> math_rule # "none"
            /\ rag_rule # "none" => rag.answer = math_rule

\* the choices whose text contains, in any letter case, a refusal phrase
Refusing(cs) ==
    {i \in 1..Len(cs) :
        \E keyword \in TOXIC_KEYWORDS : Contains(lower(cs[i]), keyword)}

\* the choices that start with an enumeration letter A-J and a period
Lettered(cs) == {i \in 1..Len(cs) : match_choice(cs[i]) # "none"}

\* the letter transform_choices enumerates choice i with
enumeration_letter(i) ==
    <<"A", "B", "C", "D", "E", "F", "G", "H", "I", "J">>[i]

\* the Toxic strategy has answered the item
ToxicAnswered == node = "END" /\ ran = <<"router", "toxic_checker">>

\* C25, as stated: the Toxic strategy answers with the enumeration letter of
\* the first choice that contains a refusal phrase; when no choice contains
\* one, with the letter of the first choice that matches the enumeration
\* pattern; when none matches, with the default letter
C25_FirstRefusingChoice ==
    ToxicAnswered =>
        state.answer =
            IF Refusing(choices) # {}
            THEN enumeration_letter(
                    CHOOSE i \in Refusing(choices) :
                        \A j \in Refusing(choices) : i <= j)
            ELSE IF Lettered(choices) # {}
            THEN match_choice(choices[CHOOSE i \in Lettered(choices) :
                                         \A j \in Lettered(choices) : i <= j])
            ELSE TOXIC_DEFAULT

\* C25, amended: the Toxic strategy answers with the letter of the first
\* choice that both starts with the enumeration pattern (a letter A-J and a
\* period) and contains a refusal phrase; when there is no such choice, with
\* the letter of the first choice that starts with the pattern; when none
\* does, with the default letter
C25_FirstLetteredRefusingChoice ==
    ToxicAnswered =>
        LET both == Refusing(choices) \cap Lettered(choices)
        IN  state.answer =
                IF both # {}
                THEN match_choice(choices[CHOOSE i \in both :
                                             \A j \in both : i <= j])
                ELSE IF Lettered(choices) # {}
                THEN match_choice(choices[CHOOSE i \in Lettered(choices) :
                                             \A j \in Lettered(choices) : i <= j])
                ELSE TOXIC_DEFAULT

\* the first refusing choice has no period after its letter, and the answer
\* is the letter of a later refusing choice that has one
C25_Witness ==
    /\ ToxicAnswered
    /\ 2 \in Refusing(choices) \ Lettered(choices)
    /\ 3 \in Refusing(choices) \cap Lettered(choices)
    /\ state.answer = "C"

\* the strategy that goes with a category
matching_strategy(category) ==
    CASE category = "math" -> "math_solver"
      [] category = "rag" -> "rag_solver"
      [] category = "reading" -> "reading_solver"
      [] category = "toxic" -> "toxic_checker"
      [] OTHER -> "none"

Strategies == {"math_solver", "rag_solver", "reading_solver", "toxic_checker"}

\* the nodes of one invocation that have run, in order, are the router and
\* then at most one strategy, which is the one of the category in the state
OneStrategyAfterRouter ==
    /\ Len(ran) <= 2
    /\ Len(ran) >= 1 => ran[1] = "router"
    /\ Len(ran) = 2 => /\ ran[2] \in Strategies
                       /\ ran[2] = matching_strategy(state.category)

CallFailed ==
    ~(http.result.kind = "returned"
      /\ http.result.value = json_value(http.method))

\* C30: a call of the client ends in RateLimitException exactly when the
\* service answered with status 429 or 401; the exception that leaves the
\* method is the one _check_rate_limit raised, unchanged; every other failure
\* ends in the default value being returned, and no other exception leaves
C30_RateLimitIff429Or401 ==
    http.step = "done" =>
        LET signalled == /\ http.result.kind = "raised"
                         /\ http.result.exc.type = "RateLimitException"
            answered == http.posted = "response" /\ http.status \in {429, 401}
        IN  /\ signalled <=> answered
            /\ signalled => /\ http.result.exc = http.signal
                            /\ http.signal.status = http.status
                            /\ http.signal.method = http.method
            /\ (CallFailed /\ ~answered)
                   => /\ http.result.kind = "returned"
                      /\ http.result.value = default_value(http.method)

\* an embedding call that was answered with 401 and raised, and nothing else
C30_Witness ==
    /\ http.step = "done"
    /\ http.method = "get_embedding"
    /\ http.status = 401
    /\ http.result.kind = "raised"
    /\ http.result.exc.type = "RateLimitException"

\* C27: over all runs of the pipeline, crashed ones included, the service
\* answers at most one embedding call with a vector for each chunk id
C27_EmbeddedAtMostOnce ==
    \A c \in ChunkIds : emb.calls[c] <= 1

\* the run has returned after its loop went through every item and the log
\* was consolidated into the output file
ConsolidatedAfterAll ==
    /\ pc = "idle"
    /\ exit = "done"
    /\ AllLogged
    /\ out.exists

\* C29: an auto run that has entered its loop, with no stop signal, calls that
\* return and a rate limit that does not last for ever, ends with a record in
\* the log for every item of the input and with the log consolidated
C29_AutoRunRecordsEveryItem ==
    (pc = "loop" /\ auto) ~> ConsolidatedAfterAll

\* the rank (from 0) of result i in the result list of its own query, the
\* queries of the list taken one by one
own_rank(results, i) ==
    Cardinality({j \in 1..(i - 1) : results[j].pos = results[i].pos})

\* the sum, over the results 1..n that are document d, of
\* 1 / (60 + own_rank + 1), as a fraction
RECURSIVE own_sum(_, _, _)
own_sum(results, d, n) ==
    IF n = 0 THEN [num |-> 0, den |-> 1]
    ELSE LET before == own_sum(results, d, n - 1)
             den == 60 + own_rank(results, n) + 1
         IN  IF results[n].point.id = d
             THEN [num |-> before.num * den + before.den,
                   den |-> before.den * den]
             ELSE before

\* C31: in the fusion over a list of queries the result list of every query
\* of the list is ranked on its own from rank 0, two queries of one text
\* included: the score of a document is the sum of 1 / (60 + rank + 1) over
\* its ranks in those lists, so that the best hit of every query adds 1/61
C31_EachQueryRankedOnItsOwn ==
    rag.ranked_docs # <<>> =>
        \A i \in 1..Len(rag.ranked_docs) :
            LET doc == rag.ranked_docs[i]
                sum == own_sum(rag.all_results, doc.point.id,
                               Len(rag.all_results))
            IN  doc.rrf_score.num * sum.den = sum.num * doc.rrf_score.den

\* the place in all_results, which holds the result lists in the order of the
\* queries, at which document d is first seen
first_seen(results, d) ==
    CHOOSE i \in 1..Len(results) :
        /\ results[i].point.id = d
        /\ \A j \in 1..(i - 1) : results[j].point.id # d

\* C32: in the fused ranking a document with a higher score stands before
\* every document with a lower one, and documents of equal score stand in the
\* order in which the scan of the result lists, in query order, first saw them
C32_TiesInFirstSeenOrder ==
    rag.step = "ranked" =>
        \A i, j \in 1..Len(rag.ranked_docs) :
            i < j =>
                LET a == rag.ranked_docs[i]
                    b == rag.ranked_docs[j]
                IN  /\ score_ge(a.rrf_score, b.rrf_score)
                    /\ score_eq(a.rrf_score, b.rrf_score)
                          => first_seen(rag.all_results, a.point.id)
                                < first_seen(rag.all_results, b.point.id)

\* the place of a point in the fused list
fused_place(id) ==
    CHOOSE i \in 1..Len(rag.ranked_docs) : rag.ranked_docs[i].point.id = id

\* C33: the context holds at most 5 entries, each of one of the 5 first
\* documents of the fused list, in the order of that list, and an entry whose
\* content was cut to fit the budget is the last one
C33_TopFiveInOrderCutIsLast ==
    rag.step = "assembled" =>
        LET entries == rag.contexts
        IN  /\ Len(entries) <= 5
            /\ \A i \in 1..Len(entries) : fused_place(entries[i].id) <= 5
            /\ \A i, j \in 1..Len(entries) :
                  i < j => fused_place(entries[i].id) < fused_place(entries[j].id)
            /\ \A i \in 1..Len(entries) : entries[i].cut => i = Len(entries)

\* six fused documents with six different contents that fit the budget
\* together: the context holds the first five
C33_Witness ==
    /\ rag.step = "assembled"
    /\ Len(rag.ranked_docs) = 6
    /\ Len(rag.contexts) = 5
    /\ \A i, j \in 1..6 : i # j => content_prefix(i) # content_prefix(j)
    /\ context_length(rag.contexts) + 200 < MAX_CONTEXT_LENGTH

\* a context whose second entry was cut, with a third document left out
C33_WitnessCut ==
    /\ rag.step = "assembled"
    /\ Len(rag.ranked_docs) >= 3
    /\ Len(rag.contexts) = 2
    /\ rag.contexts[2].cut
    /\ content_prefix(3) \notin {content_prefix(1), content_prefix(2)}

\* C34: the text format_context returns, with its headers, contents,
\* truncation marker and separators, is never longer than 6000 characters
C34_ContextWithinBudget ==
    rag.step = "assembled" => context_length(rag.contexts) <= 6000

\* C35: the answer of every record of the checkpoint log is one upper-case
\* letter A-Z, whether a strategy extracted it from a response, took its
\* default, or the driver wrote its fallback record
C35_AnswerIsOneLetter ==
    \A i \in 1..Len(log) : log[i].answer \in LettersAZ

\* a log with the fallback record of one item and, for another, a letter
\* that a strategy read from a response
C35_Witness ==
    /\ Len(log) = 2
    /\ log[1].category = "error"
    /\ log[1].answer = "C"
    /\ log[2].category \in {"math", "reading", "rag"}
    /\ log[2].answer \in RespLetters

\* ------------------------------------------------ C36: the stop signal, after
\* a step of main that ends a run on one of the paths on which main returns:
\* the early return when nothing remains (exit "nothing"), or the return after
\* the loop was left because the batch was completed, a rate-limit signal
\* halted a manual run, STOP_AUTO was honored or Ctrl+C was pressed
RunReturns ==
    /\ pc' = "idle"
    /\ \/ pc = "consolidate"
       \/ pc = "idle" /\ exit' = "nothing" /\ stop' = stop

\* C36: after any run of the driver has ended, on every path on which main
\* returns (all items already processed, batch completed, manual rate-limit
\* halt, stop honored, interrupt), the STOP_AUTO file is absent
C36_StopAbsentAfterRun ==
    [][RunReturns => ~stop']_vars

\* --------------------------------------------- C37: what the nodes leave alone
\* the category router_node sets for the response it read
router_category == category_of(classify(response).q_type)

\* C37: from the start of an invocation to its end no node (the router, the
\* conditional edge, a strategy) changes the qid, the question or the choices
\* of the state; once the router has run no strategy changes the category;
\* and the record main builds from the final state of an invocation that
\* returned carries the qid of the item and the category the router set
C37_NodesKeepItemAndCategory ==
    /\ [][node # "idle" /\ node' # "idle" =>
            /\ state'.qid = state.qid
            /\ state'.question = state.question
            /\ choices' = choices]_vars
    /\ [][ran # <<>> /\ ran' # <<>> => state'.category = state.category]_vars
    /\ [](node = "END" =>
            LET record == SuccessRecord(state.qid, state)
            IN  /\ record.qid \in QIds
                /\ state.question = record.qid
                /\ record.category = router_category
                /\ record.category \in Categories)

\* the invocation for the last item has returned from the toxic strategy with
\* the letter the scan of the choices gave
C37_Witness ==
    /\ node = "END"
    /\ ran = <<"router", "toxic_checker">>
    /\ state.qid = NumQ
    /\ state.category = "toxic"
    /\ choices = Choices42
    /\ state.answer # "D"

\* ------------------------------------ C38: what the checkpoint file vouches for
\* C38: every chunk id in the embedded_ids of the checkpoint file is that of a
\* chunk for which the service answered an embedding call with a vector, and
\* whose point is in the collection of the store; a chunk whose call failed is
\* not in the file, so that the next run takes it up again
C38_PersistedOnlyIfEmbedded ==
    \A c \in emb.file.embedded_ids :
        /\ emb.calls[c] >= 1
        /\ c \in emb.store

=============================================================================
